---- MODULE Spec2Model ----
(***************************************************************************)
(* LC-MS peak/product analysis: PeakAnalyzer, MassCalculator,              *)
(* MolecularCalculator and ChannelAnalyzer.                                *)
(*                                                                         *)
(* Numbers are exact: masses, retention times, intensities and areas are   *)
(* integers in a fixed unit (1e-4 Da for the mass profile), a quotient is  *)
(* an exact fraction; the retention times and the tolerance of             *)
(* align_channels are binary floating point numbers, rounded as the        *)
(* program rounds them.  A table (pandas DataFrame with the default        *)
(* RangeIndex) is the sequence of its rows, a row a record of its columns. *)
(* Python's None is the empty tuple, a present value v the tuple <<v>>.    *)
(***************************************************************************)
EXTENDS Integers, Sequences, FiniteSets, TLC

\* ---------------------------------------------------------------- bounds
MaxPeaks == 2        \* rows of a peak table given to detect_product
MaxChrom == 3        \* rows of a chromatogram table
MaxRT == 1           \* retention times 0..MaxRT
MaxMass == 1         \* masses 0..MaxMass
MaxIntensity == 1    \* intensities 0..MaxIntensity
MaxTol == 2          \* tolerances -1..MaxTol, for align_channels in tenths of a minute

MaxArea == 2         \* areas -1..MaxArea
MaxCount == 4        \* max_peaks 0..MaxCount
MaxAtoms == 2        \* atoms of one element in a molecule
MaxRows == 2         \* points of a channel series
MaxSeriesRT == 4     \* retention times of a channel series, in tenths of a minute
MaxAligned == 3      \* rows of an aligned table
MaxAlignedRT == 2    \* retention times of an aligned table
MaxWindow == 3       \* window_size 1..MaxWindow
MaxPoints == 5       \* samples of a series given to a peak detector
MaxValue == 2        \* sample values 0..MaxValue
MaxStep == 2         \* sampling intervals 1..MaxStep
MaxConstraint == 1   \* height, prominence and width constraints 1..MaxConstraint
MaxDistance == 3     \* distance constraints 0..MaxDistance
MaxScans == 2        \* rows (scans, one per second) of a PDA matrix
MaxWl == 2           \* wavelengths of a PDA matrix
MaxAbsorbance == 1   \* absorbances of a scan and of a blank 0..MaxAbsorbance
MaxTime == 4         \* target retention times 0..MaxTime, in half seconds
MaxHalfwidth == 2    \* rt_window 0..MaxHalfwidth, in half seconds
MaxSpectrum == 4     \* elements of a spectrum passed to _smooth_spectrum
MaxSmoothWindow == 5 \* window sizes 1..MaxSmoothWindow of _smooth_spectrum
MaxFiles == 3        \* files of a batch given to processFiles
MaxValidated == 2    \* rows of a table given to validate_peaks
MaxBorrowed == 2     \* rows of a table a caller holds across calls

VARIABLES op, result,
          peaks_data, target_mass, tolerance,   \* detect_product's arguments
          chromatogram, time_range,             \* calculate_purity's arguments
          max_peaks,                            \* get_major_peaks' argument
          smiles,                               \* calculate_masses' argument
          ms_data, uv_data, rt_tolerance,       \* align_channels' arguments
          aligned_data, window_size,  \* analyze_peak_correlation's arguments
          intensity, rt, height, distance, prominence, width, height_threshold, min_peak_height, min_peak_width,  \* the peak detectors' arguments
          blank_spectrum, pda_data, wavelengths, retention_time, rt_window,  \* PDAProcessor's field and process_pda_data's arguments
          input_spectrum,  \* _smooth_spectrum's argument
          pc, executed, raw_file, sample_id,  \* process_sample: position of the caller, stages run, arguments
          files, file_index, emitted, converter, result_data, batch_pc,  \* Backend: processFiles' argument, loop position, signals emitted, fields
          peaks_df,  \* validate_peaks' argument
          shared   \* the arguments of the last call that the object it returned is or holds

vars == <<op, result, peaks_data, target_mass, tolerance, chromatogram, time_range,
          max_peaks, smiles, ms_data, uv_data, rt_tolerance,
          aligned_data, window_size,
          intensity, rt, height, distance, prominence, width, height_threshold, min_peak_height, min_peak_width,
          blank_spectrum, pda_data, wavelengths, retention_time, rt_window,
          input_spectrum,
          pc, executed, raw_file, sample_id,
          files, file_index, emitted, converter, result_data, batch_pc,
          peaks_df,
          shared>>

detectArgs == <<peaks_data, target_mass, tolerance>>
purityArgs == <<chromatogram, time_range>>
majorArgs == <<max_peaks>>
massArgs == <<smiles>>
alignArgs == <<ms_data, uv_data, rt_tolerance>>
corrArgs == <<aligned_data, window_size>>
peakArgs == <<intensity, rt, height, distance, prominence, width, height_threshold,
              min_peak_height, min_peak_width>>
pdaArgs == <<blank_spectrum, pda_data, wavelengths, retention_time, rt_window>>
smoothArgs == <<input_spectrum>>
sampleArgs == <<pc, executed, raw_file, sample_id>>
batchArgs == <<files, file_index, emitted, converter, result_data, batch_pc>>
validateArgs == <<peaks_df>>
borrowArgs == <<shared>>

\* ---------------------------------------------------------------- values
None == <<>>
Some(v) == <<v>>

TablesOf(Rows, n) == UNION {[1..k -> Rows] : k \in 0..n}

\* the default RangeIndex of a table: its row labels, in order
Index(table) == [i \in 1..Len(table) |-> i]

\* a call's outcome: a returned value or a raised exception
Return(v) == [kind |-> "return", value |-> v]
Raise(e) == [kind |-> "raise", value |-> e]
NoCall == [kind |-> "none", value |-> None]

\* ------------------------------------------------------- input domains
Tolerances == (0 - 1)..MaxTol

DetectRows ==
    [retention_time : 0..MaxRT, mass : 0..MaxMass,
     intensity : 0..MaxIntensity, area : {0}, width : {0}]

\* ------------------------------------------- PeakAnalyzer.detect_product
\* faulty variant: the two bounds of the window exchanged
mass_matches_swapped(peaks, target, tol) ==
    SelectSeq(Index(peaks),
              LAMBDA i : /\ peaks[i].mass >= target + tol
                         /\ peaks[i].mass <= target - tol)

\* faulty variant: the upper bound exclusive
mass_matches_exclusive(peaks, target, tol) ==
    SelectSeq(Index(peaks),
              LAMBDA i : /\ peaks[i].mass >= target - tol
                         /\ peaks[i].mass < target + tol)

\* peaks_data[(mass >= target_mass - tolerance) & (mass <= target_mass + tolerance)]:
\* the labels of the rows inside the mass window, in table order
mass_matches(peaks, target, tol) ==
    SelectSeq(Index(peaks),
              LAMBDA i : /\ peaks[i].mass >= target - tol
                         /\ peaks[i].mass <= target + tol)

\* faulty variant: the label of the last occurrence of the maximum
idxmax_last(labels, peaks) ==
    labels[CHOOSE k \in 1..Len(labels) :
             /\ \A j \in 1..Len(labels) :
                   peaks[labels[j]].intensity <= peaks[labels[k]].intensity
             /\ \A j \in (k + 1)..Len(labels) :
                   peaks[labels[j]].intensity < peaks[labels[k]].intensity]

\* Series.idxmax(): the label of the first occurrence of the maximum
idxmax(labels, peaks) ==
    labels[CHOOSE k \in 1..Len(labels) :
             /\ \A j \in 1..Len(labels) :
                   peaks[labels[j]].intensity <= peaks[labels[k]].intensity
             /\ \A j \in 1..(k - 1) :
                   peaks[labels[j]].intensity < peaks[labels[k]].intensity]

detect_product(peaks, target, tol) ==
    LET matches == mass_matches(peaks, target, tol) IN
    IF matches = <<>>
    THEN Return(<<FALSE, None, None>>)
    ELSE LET best_match == peaks[idxmax(matches, peaks)] IN
         Return(<<TRUE, Some(best_match.mass), Some(best_match.retention_time)>>)

\* ------------------------------------------------------------ fractions
\* a float result as the exact fraction num/den, den > 0, in lowest terms
Abs(x) == IF x < 0 THEN 0 - x ELSE x

RECURSIVE GCD(_, _)
GCD(a, b) == IF b = 0 THEN a ELSE GCD(b, a % b)

Frac(n, d) ==
    LET g == GCD(Abs(n), Abs(d))
        sgn == IF d < 0 THEN 0 - 1 ELSE 1
    IN [num |-> (sgn * n) \div g, den |-> (sgn * d) \div g]

FracLeq(a, b) == a.num * b.den <= b.num * a.den

FracMin(a, b) == IF FracLeq(a, b) THEN a ELSE b

\* ----------------------------------------- PeakAnalyzer.calculate_purity
PurityRows ==
    [retention_time : 0..MaxRT, mass : {0}, intensity : {0},
     area : (0 - 1)..MaxArea, width : {0}]

TimeRanges == (0..MaxRT) \X (0..MaxRT)

\* faulty variant: the upper bound of the window exclusive
window_data_exclusive(chrom, range) ==
    SelectSeq(chrom, LAMBDA row : /\ row.retention_time >= range[1]
                                   /\ row.retention_time < range[2])

\* chromatogram[(retention_time >= time_range[0]) & (retention_time <= time_range[1])]
window_data(chrom, range) ==
    SelectSeq(chrom, LAMBDA row : /\ row.retention_time >= range[1]
                                   /\ row.retention_time <= range[2])

\* Series.sum() and Series.max() of the area column
RECURSIVE area_sum(_)
area_sum(rows) ==
    IF rows = <<>> THEN 0 ELSE Head(rows).area + area_sum(Tail(rows))

RECURSIVE area_max(_)
area_max(rows) ==
    IF Len(rows) = 1 THEN Head(rows).area
    ELSE LET m == area_max(Tail(rows)) IN
         IF Head(rows).area >= m THEN Head(rows).area ELSE m

\* faulty variant: -1 for a window without peaks
calculate_purity_sentinel(chrom, range) ==
    LET window == window_data(chrom, range)
        total_area == area_sum(window)
    IN IF window = <<>> THEN Return(Frac(0 - 1, 1))
       ELSE IF total_area = 0 THEN Return(Frac(0, 1))
       ELSE Return(FracMin(Frac(area_max(window) * 100, total_area), Frac(100, 1)))

\* faulty variant: no guard against a zero total area
calculate_purity_raises(chrom, range) ==
    LET window == window_data(chrom, range)
        total_area == area_sum(window)
    IN IF window = <<>> THEN Return(Frac(0, 1))
       ELSE IF total_area = 0 THEN Raise("ZeroDivisionError")
       ELSE Return(FracMin(Frac(area_max(window) * 100, total_area), Frac(100, 1)))

calculate_purity(chrom, range) ==
    LET window == window_data(chrom, range)
        total_area == area_sum(window)
    IN IF window = <<>> THEN Return(Frac(0, 1))
       ELSE IF total_area = 0 THEN Return(Frac(0, 1))
       ELSE LET main_peak_area == area_max(window)
                purity == Frac(main_peak_area * 100, total_area)
            IN Return(FracMin(purity, Frac(100, 1)))

\* ------------------------------------------ PeakAnalyzer.get_major_peaks
MajorRows ==
    [retention_time : 0..MaxRT, mass : {0}, intensity : 0..MaxIntensity,
     area : {0}, width : {0}]

\* argsort(kind="mergesort") of the negated intensities: the labels ordered by
\* intensity descending, equal intensities in label order
RECURSIVE insert_desc(_, _, _)
insert_desc(sorted, label, table) ==
    IF sorted = <<>> THEN <<label>>
    ELSE IF table[Head(sorted)].intensity >= table[label].intensity
         THEN <<Head(sorted)>> \o insert_desc(Tail(sorted), label, table)
         ELSE <<label>> \o sorted

RECURSIVE argsort_desc(_, _)
argsort_desc(labels, table) ==
    IF labels = <<>> THEN <<>>
    ELSE insert_desc(argsort_desc(SubSeq(labels, 1, Len(labels) - 1), table),
                     labels[Len(labels)], table)

\* the orders an unstable sort may leave the positions of a table in:
\* ties[i] is the place of position i among the positions of equal key
SortOrders(n) == Permutations(1..n)

\* Series.sort_values(ascending = False), kind = 'quicksort': the labels by
\* intensity descending; the sort is not stable, labels of equal intensity
\* come in the order ties puts them in
RECURSIVE insert_by_ties(_, _, _, _)
insert_by_ties(sorted, label, table, ties) ==
    IF sorted = <<>> THEN <<label>>
    ELSE IF \/ table[Head(sorted)].intensity > table[label].intensity
            \/ /\ table[Head(sorted)].intensity = table[label].intensity
               /\ ties[Head(sorted)] < ties[label]
         THEN <<Head(sorted)>> \o insert_by_ties(Tail(sorted), label, table, ties)
         ELSE <<label>> \o sorted

RECURSIVE sort_values_desc(_, _, _)
sort_values_desc(labels, table, ties) ==
    IF labels = <<>> THEN <<>>
    ELSE insert_by_ties(sort_values_desc(SubSeq(labels, 1, Len(labels) - 1), table, ties),
                        labels[Len(labels)], table, ties)

\* DataFrame.nlargest(n, 'intensity'), keep = 'first'.  No row for n <= 0.
\* For n >= len the whole column is sorted with sort_values, whose sort is
\* not stable.  Otherwise the n-th largest intensity is found, the rows at
\* least that intense are sorted stably and the first n of them are taken.
nlargest(table, n, ties) ==
    LET narr == Len(table)
        m == IF n < narr THEN n ELSE narr
    IN IF n <= 0 THEN <<>>
       ELSE IF n >= narr
       THEN LET order == sort_values_desc(Index(table), table, ties)
            IN [k \in 1..narr |-> table[order[k]]]
       ELSE LET kth_val ==
                    CHOOSE v \in {table[i].intensity : i \in 1..narr} :
                        /\ Cardinality({i \in 1..narr : table[i].intensity > v}) < m
                        /\ Cardinality({i \in 1..narr : table[i].intensity >= v}) >= m
                ns == SelectSeq(Index(table), LAMBDA i : table[i].intensity >= kth_val)
                inds == SubSeq(argsort_desc(ns, table), 1, m)
            IN [k \in 1..m |-> table[inds[k]]]

\* one PeakInfo per row of the selection, in its order
PeakInfo(row) ==
    [retention_time |-> row.retention_time, mass |-> row.mass,
     intensity |-> row.intensity, area |-> row.area, width |-> row.width]

get_major_peaks(chrom, n, ties) ==
    LET top_peaks == nlargest(chrom, n, ties) IN
    Return([k \in 1..Len(top_peaks) |-> PeakInfo(top_peaks[k])])

\* ------------------------------------------------ structural notations
\* A SMILES string is known by what the parser makes of it: the empty
\* string, a string that is not SMILES, SMILES of an impossible molecule
\* (a valence that sanitization rejects), or SMILES of a molecule, which is
\* then known by its elemental composition.
Elements == {"C", "H", "N", "O"}

NoAtoms == [e \in Elements |-> 0]

EmptyNotation == [kind |-> "empty", atoms |-> NoAtoms]

Notations ==
    {[kind |-> k, atoms |-> NoAtoms] : k \in {"empty", "malformed", "chem_invalid"}}
        \cup {[kind |-> "valid", atoms |-> a] :
                 a \in [Elements -> 0..MaxAtoms] \ {NoAtoms}}

\* Chem.MolFromSmiles: None when the string does not parse or does not
\* sanitize; the empty string parses to a molecule without atoms
MolFromSmiles(s) ==
    IF s.kind \in {"malformed", "chem_invalid"} THEN None ELSE Some(s.atoms)

\* rdMolDescriptors.CalcMolFormula: the formula, as the count of each element
CalcMolFormula(mol) == mol

\* rdMolDescriptors.CalcExactMolWt: the sum of the most abundant isotopes'
\* masses, in 1e-4 Da (12C 12.0000, 1H 1.0078, 14N 14.0031, 16O 15.9949)
isotope_mass == [e \in Elements |->
    CASE e = "C" -> 120000 [] e = "H" -> 10078 [] e = "N" -> 140031 [] e = "O" -> 159949]

CalcExactMolWt(mol) ==
    mol["C"] * isotope_mass["C"] + mol["H"] * isotope_mass["H"]
        + mol["N"] * isotope_mass["N"] + mol["O"] * isotope_mass["O"]

\* ------------------------------------------ MassCalculator.calculate_masses
\* faulty variant: [M-H]- computed with the [M+H]+ offset
calculate_masses_proton(s) ==
    LET mol == MolFromSmiles(s) IN
    IF mol = None THEN Raise("ValueError")
    ELSE LET mono_mass == CalcExactMolWt(mol[1]) IN
         Return([formula |-> CalcMolFormula(mol[1]),
                 monoisotopic_mass |-> mono_mass,
                 mh_mass |-> mono_mass + 10078,
                 mna_mass |-> mono_mass + 229897,
                 mh_minus_mass |-> mono_mass - 10078])

\* masses in 1e-4 Da: 1.0078 = 10078, 22.9897 = 229897, 1.0073 = 10073
\* "if not mol": a Mol object is always true, only None is false
calculate_masses(s) ==
    LET mol == MolFromSmiles(s) IN
    IF mol = None THEN Raise("ValueError")
    ELSE LET formula == CalcMolFormula(mol[1])
             mono_mass == CalcExactMolWt(mol[1])
         IN Return([formula |-> formula,
                    monoisotopic_mass |-> mono_mass,
                    mh_mass |-> mono_mass + 10078,
                    mna_mass |-> mono_mass + 229897,
                    mh_minus_mass |-> mono_mass - 10073])

\* ------------------------------------- MolecularCalculator.calculate_masses
molecular_calculate_masses(s) ==
    LET mol == MolFromSmiles(s) IN
    IF mol = None THEN Raise("ValueError")
    ELSE LET mono_mass == CalcExactMolWt(mol[1]) IN
         Return([formula |-> CalcMolFormula(mol[1]),
                 monoisotopic_mass |-> mono_mass,
                 mh_mass |-> mono_mass + 10078,
                 mna_mass |-> mono_mass + 229897,
                 mh_minus_mass |-> mono_mass - 10073])

\* ------------------------------------------------- binary floating point
\* The retention times and the tolerance of align_channels are Python
\* floats, IEEE 754 doubles, and its sums and differences are rounded to
\* the nearest double, ties to even.  The doubles that occur are 0 and
\* doubles of magnitude below 2 that are multiples of 2^-56, as are the
\* doubles from 1/16 on and their sums and differences.  A double is held
\* as its sign and its magnitude in units of 2^-56, the magnitude as two
\* digits of base 2^28: hi * 2^28 + lo.
Limb == 268435456

\* the bits a magnitude hi * 2^28 + lo has beyond 53: those hi has beyond 25
RECURSIVE excess_bits(_)
excess_bits(hi) == IF hi < 33554432 THEN 0 ELSE 1 + excess_bits(hi \div 2)

\* the magnitude hi * 2^28 + lo, followed by further nonzero bits when
\* sticky, rounded to 53 significant bits: to nearest, ties to even
round53(hi, lo, sticky) ==
    IF hi < 33554432 THEN [hi |-> hi, lo |-> lo]
    ELSE LET q == 2 ^ excess_bits(hi)
             r == lo % q
             up == \/ 2 * r > q
                   \/ 2 * r = q /\ (sticky \/ ((lo - r) \div q) % 2 = 1)
             rounded == IF up THEN lo - r + q ELSE lo - r
         IN  IF rounded = Limb THEN [hi |-> hi + 1, lo |-> 0]
             ELSE [hi |-> hi, lo |-> rounded]

\* the quotient begun as hi * 2^28 + lo with remainder rem, continued by
\* `places` binary places
RECURSIVE scaled_quotient(_, _, _, _, _)
scaled_quotient(rem, den, hi, lo, places) ==
    IF places = 0 THEN [hi |-> hi, lo |-> lo, rem |-> rem]
    ELSE LET bit == IF 2 * rem >= den THEN 1 ELSE 0
             digit == 2 * lo + bit
         IN  scaled_quotient(2 * rem - bit * den, den,
                             2 * hi + digit \div Limb, digit % Limb, places - 1)

Zero == [neg |-> FALSE, hi |-> 0, lo |-> 0]

\* float("num/den" written as a decimal), for 0 and for 1/16 <= num/den < 2:
\* the double nearest to the quotient, from its first 57 binary places and
\* whether the quotient goes on after them
from_decimal(num, den) ==
    LET q == scaled_quotient(num % den, den, 0, num \div den, 57)
        r == round53(q.hi, q.lo, q.rem # 0)
    IN  [neg |-> FALSE, hi |-> r.hi \div 2,
         lo |-> r.lo \div 2 + (r.hi % 2) * (Limb \div 2)]

\* -x and abs(x); the sign of zero is not kept
fneg(x) == IF x.hi = 0 /\ x.lo = 0 THEN x ELSE [x EXCEPT !.neg = ~x.neg]

fabs(x) == [x EXCEPT !.neg = FALSE]

\* |x| < |y| and |x| = |y|
mag_less(x, y) == x.hi < y.hi \/ (x.hi = y.hi /\ x.lo < y.lo)

mag_equal(x, y) == x.hi = y.hi /\ x.lo = y.lo

\* |x| + |y| and, for |x| >= |y|, |x| - |y|, exactly
mag_add(x, y) ==
    [hi |-> x.hi + y.hi + (x.lo + y.lo) \div Limb, lo |-> (x.lo + y.lo) % Limb]

mag_sub(x, y) ==
    IF x.lo >= y.lo THEN [hi |-> x.hi - y.hi, lo |-> x.lo - y.lo]
    ELSE [hi |-> x.hi - y.hi - 1, lo |-> x.lo - y.lo + Limb]

\* x + y, rounded
fadd(x, y) ==
    IF x.neg = y.neg
    THEN LET sum == mag_add(x, y)
             r == round53(sum.hi, sum.lo, FALSE)
         IN  [neg |-> x.neg /\ (r.hi > 0 \/ r.lo > 0), hi |-> r.hi, lo |-> r.lo]
    ELSE IF mag_equal(x, y) THEN Zero
    ELSE LET larger == IF mag_less(x, y) THEN y ELSE x
             smaller == IF mag_less(x, y) THEN x ELSE y
             difference == mag_sub(larger, smaller)
             r == round53(difference.hi, difference.lo, FALSE)
         IN  [neg |-> larger.neg, hi |-> r.hi, lo |-> r.lo]

\* x - y, rounded
fsub(x, y) == fadd(x, fneg(y))

\* x < y and x <= y
flt(x, y) ==
    IF x.neg /\ ~y.neg THEN TRUE
    ELSE IF ~x.neg /\ y.neg THEN FALSE
    ELSE IF x.neg THEN mag_less(y, x)
    ELSE mag_less(x, y)

fle(x, y) == flt(x, y) \/ (x.neg = y.neg /\ mag_equal(x, y))

\* ------------------------------------------ ChannelAnalyzer.align_channels
\* the retention times of a channel series: the tenths of a minute
\* 0.0, 0.1, ..., as the floats a reader of decimal data gives
SeriesTimes == {from_decimal(k, 10) : k \in 0..MaxSeriesRT}

\* the tolerances given to align_channels: tenths of a minute from 0.0 on,
\* the default 0.1 among them, and the negative -0.1
AlignTolerances ==
    {fneg(from_decimal(1, 10))} \cup {from_decimal(k, 10) : k \in 0..MaxTol}

\* a channel series of up to MaxRows points, in any order of retention time;
\* a point's intensity, which align_channels only copies, is its row number
SeriesTables ==
    {[i \in 1..Len(rts) |-> [retention_time |-> rts[i], intensity |-> i]] :
        rts \in UNION {[1..k -> SeriesTimes] : k \in 0..MaxRows}}

\* uv_data[(retention_time >= ms_rt - rt_tolerance) & (retention_time <= ms_rt + rt_tolerance)]
matching_uv(uv, ms_rt, tol) ==
    LET lower == fsub(ms_rt, tol)
        upper == fadd(ms_rt, tol)
    IN  SelectSeq(uv, LAMBDA row : /\ fle(lower, row.retention_time)
                                    /\ fle(row.retention_time, upper))

\* faulty variant: of the rows at the least distance, the last
argmin_distance_last(rows, ms_rt) ==
    LET d == [k \in 1..Len(rows) |-> fabs(fsub(rows[k].retention_time, ms_rt))]
    IN  CHOOSE k \in 1..Len(rows) :
            /\ \A j \in 1..Len(rows) : fle(d[k], d[j])
            /\ \A j \in (k + 1)..Len(rows) : flt(d[k], d[j])

\* (matching_uv['retention_time'] - ms_rt).abs().argmin(): the position of
\* the first row at the least distance
argmin_distance(rows, ms_rt) ==
    LET d == [k \in 1..Len(rows) |-> fabs(fsub(rows[k].retention_time, ms_rt))]
    IN  CHOOSE k \in 1..Len(rows) :
            /\ \A j \in 1..Len(rows) : fle(d[k], d[j])
            /\ \A j \in 1..(k - 1) : flt(d[k], d[j])

\* the loop over ms_data.iterrows(), from row i on
RECURSIVE aligned_from(_, _, _, _)
aligned_from(i, ms, uv, tol) ==
    IF i > Len(ms) THEN <<>>
    ELSE LET ms_row == ms[i]
             ms_rt == ms_row.retention_time
             matching == matching_uv(uv, ms_rt, tol)
         IN IF matching # <<>>
            THEN LET closest_uv == matching[argmin_distance(matching, ms_rt)]
                     combined ==
                         [retention_time |-> ms_rt,
                          ms_intensity |-> ms_row.intensity,
                          uv_intensity |-> closest_uv.intensity,
                          rt_difference |-> fabs(fsub(ms_rt, closest_uv.retention_time))]
                 IN <<combined>> \o aligned_from(i + 1, ms, uv, tol)
            ELSE aligned_from(i + 1, ms, uv, tol)

align_channels(ms, uv, tol) == Return(aligned_from(1, ms, uv, tol))

\* --------------------------------------------- analyze_peak_correlation
\* the tables align_channels builds (lines 51-59) from MS points in
\* increasing retention-time order
AlignedTables ==
    UNION {{[i \in 1..k |-> [retention_time |-> rts[i], ms_intensity |-> ms[i],
                             uv_intensity |-> uv[i], rt_difference |-> 0]] :
               rts \in {f \in [1..k -> 0..MaxAlignedRT] :
                           \A i \in 1..(k - 1) : f[i] < f[i + 1]},
               ms \in [1..k -> 0..MaxIntensity],
               uv \in [1..k -> 0..MaxIntensity]} : k \in 0..MaxAligned}

\* the float nan, as the fraction 0/0
NaN == [num |-> 0, den |-> 0]

\* table[name]: one column of a table
Column(table, name) == [i \in 1..Len(table) |-> table[i][name]]

RECURSIVE Sum(_)
Sum(xs) == IF xs = <<>> THEN 0 ELSE Head(xs) + Sum(Tail(xs))

\* Series.mean()
mean(xs) == IF xs = <<>> THEN NaN ELSE Frac(Sum(xs), Len(xs))

is_constant(xs) == \A i \in 1..Len(xs) : xs[i] = xs[1]

\* faulty variant: nan for fewer than 2 points
pearsonr_short(x, y) ==
    IF Len(x) < 2 \/ is_constant(x) \/ is_constant(y) THEN Return(NaN)
    ELSE LET n == Len(x)
             sxy == n * Sum([i \in 1..n |-> x[i] * y[i]]) - Sum(x) * Sum(y)
             sxx == n * Sum([i \in 1..n |-> x[i] * x[i]]) - Sum(x) * Sum(x)
             syy == n * Sum([i \in 1..n |-> y[i] * y[i]]) - Sum(y) * Sum(y)
         IN Return(Frac(sxy * Abs(sxy), sxx * syy))

\* faulty variant: 0 for a constant input
pearsonr_zero(x, y) ==
    IF Len(x) < 2 THEN Raise("ValueError")
    ELSE IF is_constant(x) \/ is_constant(y) THEN Return(Frac(0, 1))
    ELSE LET n == Len(x)
             sxy == n * Sum([i \in 1..n |-> x[i] * y[i]]) - Sum(x) * Sum(y)
             sxx == n * Sum([i \in 1..n |-> x[i] * x[i]]) - Sum(x) * Sum(x)
             syy == n * Sum([i \in 1..n |-> y[i] * y[i]]) - Sum(y) * Sum(y)
         IN Return(Frac(sxy * Abs(sxy), sxx * syy))

\* scipy.stats.pearsonr(x, y)[0]: ValueError for fewer than 2 points, nan
\* when x or y is constant, else r = sxy / sqrt(sxx * syy).  r is kept as
\* the exact fraction r * |r| = sxy * |sxy| / (sxx * syy), which orders
\* and identifies the coefficients of [-1, 1] as r does.
pearsonr(x, y) ==
    IF Len(x) < 2 THEN Raise("ValueError")
    ELSE IF is_constant(x) \/ is_constant(y) THEN Return(NaN)
    ELSE LET n == Len(x)
             sxy == n * Sum([i \in 1..n |-> x[i] * y[i]]) - Sum(x) * Sum(y)
             sxx == n * Sum([i \in 1..n |-> x[i] * x[i]]) - Sum(x) * Sum(x)
             syy == n * Sum([i \in 1..n |-> y[i] * y[i]]) - Sum(y) * Sum(y)
         IN Return(Frac(sxy * Abs(sxy), sxx * syy))

\* len(range(k))
range_len(k) == IF k < 0 THEN 0 ELSE k

\* aligned_data.iloc[i:i + window_size] for i in range(len - window_size + 1),
\* window_size >= 1
windows(aligned, w) ==
    [i \in 1..range_len(Len(aligned) - w + 1) |-> SubSeq(aligned, i, i + w - 1)]

RECURSIVE column_max(_)
column_max(xs) ==
    IF Len(xs) = 1 THEN xs[1]
    ELSE LET m == column_max(Tail(xs)) IN IF Head(xs) >= m THEN Head(xs) ELSE m

\* _find_corresponding_peaks with intensity_threshold = 0.5, on intensities
\* that are not negative: a column of zeros normalises to nan, which
\* exceeds no threshold
find_corresponding_peaks(aligned) ==
    LET ms_max == column_max(Column(aligned, "ms_intensity"))
        uv_max == column_max(Column(aligned, "uv_intensity"))
        high_intensity_points ==
            SelectSeq(aligned,
                      LAMBDA row : /\ ms_max > 0
                                   /\ uv_max > 0
                                   /\ 2 * row.ms_intensity > ms_max
                                   /\ 2 * row.uv_intensity > uv_max)
    IN [k \in 1..Len(high_intensity_points) |->
           LET row == high_intensity_points[k]
           IN [retention_time |-> row.retention_time,
               ms_intensity |-> row.ms_intensity,
               uv_intensity |-> row.uv_intensity,
               ms_normalized |-> Frac(row.ms_intensity, ms_max),
               uv_normalized |-> Frac(row.uv_intensity, uv_max)]]

\* analyze_peak_correlation.  pd.DataFrame([]), the table align_channels
\* returns without a match, has no column: aligned_data['ms_intensity']
\* raises KeyError.  The p-value, a function of the row count and of the
\* coefficient, is not represented.
analyze_peak_correlation(aligned, w) ==
    IF aligned = <<>> THEN Raise("KeyError")
    ELSE LET global_corr == pearsonr(Column(aligned, "ms_intensity"),
                                     Column(aligned, "uv_intensity"))
             wins == windows(aligned, w)
             corrs == [k \in 1..Len(wins) |->
                          pearsonr(Column(wins[k], "ms_intensity"),
                                   Column(wins[k], "uv_intensity"))]
         IN IF global_corr.kind = "raise" THEN global_corr
            ELSE IF \E k \in 1..Len(wins) : corrs[k].kind = "raise"
                 THEN Raise("ValueError")
            ELSE Return(
                [global_correlation |-> <<[correlation |-> global_corr.value]>>,
                 local_correlation |->
                     [k \in 1..Len(wins) |->
                         [retention_time |-> mean(Column(wins[k], "retention_time")),
                          correlation |-> corrs[k].value]],
                 peak_pairs |-> find_corresponding_peaks(aligned)])


\* ------------------------------------------------------ borrowed tables
\* A table passed to a method is the caller's object.  A method's
\* borrows are the tables it was passed as the call leaves them, in the
\* order of the parameters, and those of them that the returned object is
\* or holds.

\* no call that was passed a table
IdleBorrow == shared = {}

\* detect_product (lines 43-54): the boolean-mask subscript makes a new
\* table, empty, the column subscript, idxmax and loc read; the tuple
\* returned holds a bool and two numbers
detect_product_borrows(peaks) == [arguments |-> <<peaks>>, returned |-> {}]

\* calculate_purity (lines 76-92): the boolean-mask subscript makes a new
\* table, empty, sum and max read; a number is returned
calculate_purity_borrows(chrom) == [arguments |-> <<chrom>>, returned |-> {}]

\* faulty variant: the table is sorted in place before its first rows are
\* taken
get_major_peaks_borrows_sorted(chrom) ==
    [arguments |-> <<[k \in 1..Len(chrom) |-> chrom[argsort_desc(Index(chrom), chrom)[k]]]>>,
     returned |-> {}]

\* get_major_peaks (lines 114-125): nlargest makes a new table, iterrows
\* yields its rows; the list returned holds one new PeakInfo per row
get_major_peaks_borrows(chrom) == [arguments |-> <<chrom>>, returned |-> {}]

\* align_channels (lines 33-59): iterrows reads ms_data, the boolean-mask
\* subscript makes a new table of uv_data; the table returned is made of
\* the list of new dicts
align_channels_borrows(ms, uv) == [arguments |-> <<ms, uv>>, returned |-> {}]

\* analyze_peak_correlation and _find_corresponding_peaks (lines 76-101,
\* 118-139): column subscripts, iloc, loc, max and mean read; the dict
\* returned holds three new tables
analyze_peak_correlation_borrows(aligned) ==
    [arguments |-> <<aligned>>, returned |-> {}]

\* -------------------------------------------------------- peak detection
\* a series is sampled on a uniform grid that starts at 0; its values are
\* not negative
SeriesValues == UNION {[1..n -> 0..MaxValue] : n \in 0..MaxPoints}

uniform_times(n, dt) == [i \in 1..n |-> (i - 1) * dt]

Constraints == {None} \cup {Some(v) : v \in 1..MaxConstraint}

Distances == {None} \cup {Some(v) : v \in 0..MaxDistance}

Thresholds == {Frac(1, 10), Frac(1, 1)}

\* the arguments before any peak detector is called
IdlePeaks ==
    /\ intensity = <<>>
    /\ rt = <<>>
    /\ height = None
    /\ distance = None
    /\ prominence = None
    /\ width = None
    /\ height_threshold = Frac(1, 10)
    /\ min_peak_height = Frac(1, 10)
    /\ min_peak_width = 0

FracAdd(a, b) == Frac(a.num * b.den + b.num * a.den, a.den * b.den)

FracSub(a, b) == Frac(a.num * b.den - b.num * a.den, a.den * b.den)

FracMul(a, b) == Frac(a.num * b.num, a.den * b.den)

\* int(x) and astype(int) of a float that is not negative
FracFloor(a) == a.num \div a.den

\* the element of a one-element set.  the({e : v \in {a}}) is e with v
\* standing for the value of a: a is evaluated once, however often e uses it.
the(S) == CHOOSE v \in S : TRUE

SetMin(S) == CHOOSE m \in S : \A v \in S : m <= v

SetMax(S) == CHOOSE m \in S : \A v \in S : m >= v

\* Positions are 1-based here, 0-based in numpy: position k stands for
\* index k - 1.

\* scipy _local_maxima_1d: the end of the flat run that starts at i
RECURSIVE plateau_end(_, _, _)
plateau_end(x, i, i_ahead) ==
    IF i_ahead < Len(x) /\ x[i_ahead] = x[i] THEN plateau_end(x, i, i_ahead + 1)
    ELSE i_ahead

\* scipy _local_maxima_1d: the midpoints of the flat runs that rise from
\* the left and fall to the right, scanning from the second sample to the
\* one before the last
RECURSIVE local_maxima_from(_, _)
local_maxima_from(x, i) ==
    IF i >= Len(x) THEN <<>>
    ELSE IF x[i - 1] < x[i]
         THEN LET i_ahead == plateau_end(x, i, i + 1)
              IN IF x[i_ahead] < x[i]
                 THEN <<(i + i_ahead - 1) \div 2>> \o local_maxima_from(x, i_ahead + 1)
                 ELSE local_maxima_from(x, i + 1)
         ELSE local_maxima_from(x, i + 1)

local_maxima(x) == local_maxima_from(x, 2)

\* the orders np.argsort may leave the peaks of a series in: a series of n
\* samples has at most (n - 1) div 2 local maxima
TieOrders(x) == SortOrders((Len(x) - 1) \div 2)

\* scipy _select_by_peak_distance: the peaks are visited from the last to
\* the first of np.argsort(priority), that is from the highest to the
\* lowest; the sort is not stable, of equal peaks the one ties puts last is
\* visited first.  A peak still kept removes every other peak closer than
\* the distance.
RECURSIVE keep_by_distance(_, _, _, _, _, _)
keep_by_distance(peaks, x, d, keep, todo, ties) ==
    IF todo = {} THEN keep
    ELSE LET j == CHOOSE j \in todo :
                      \A k \in todo : \/ x[peaks[k]] < x[peaks[j]]
                                      \/ (x[peaks[k]] = x[peaks[j]] /\ ties[k] <= ties[j])
         IN IF j \notin keep
            THEN keep_by_distance(peaks, x, d, keep, todo \ {j}, ties)
            ELSE keep_by_distance(peaks, x, d,
                     {k \in keep : k = j \/ Abs(peaks[k] - peaks[j]) >= d},
                     todo \ {j}, ties)

select_by_peak_distance(peaks, x, d, ties) ==
    LET keep == keep_by_distance(peaks, x, d, 1..Len(peaks), 1..Len(peaks), ties)
    IN SelectSeq(peaks, LAMBDA p : \E k \in keep : peaks[k] = p)

\* scipy _peak_prominences without wlen: to each side the scan runs while
\* the samples do not exceed the peak; the base is the nearest lowest sample
peak_prominences(x, p) ==
    LET l == CHOOSE l \in 1..p :
                 /\ \A i \in l..p : x[i] <= x[p]
                 /\ (l = 1 \/ x[l - 1] > x[p])
        r == CHOOSE r \in p..Len(x) :
                 /\ \A i \in p..r : x[i] <= x[p]
                 /\ (r = Len(x) \/ x[r + 1] > x[p])
        left_min == SetMin({x[i] : i \in l..p})
        right_min == SetMin({x[i] : i \in p..r})
    IN [prominence |-> x[p] - (IF left_min >= right_min THEN left_min ELSE right_min),
        left_base |-> SetMax({i \in l..p : x[i] = left_min}),
        right_base |-> SetMin({i \in p..r : x[i] = right_min})]

\* scipy _peak_widths at rel_height = 0.5: the evaluation height is
\* x[p] - prominence / 2 (h2 is twice that); to each side the scan stops at
\* the base or at the first sample not above the height, and the crossing
\* is interpolated linearly
peak_widths(x, p) ==
    the({LET h2 == 2 * x[p] - pd.prominence
         IN the({the({[widths |-> FracSub(right_ip, left_ip),
                       left_ips |-> left_ip,
                       right_ips |-> right_ip]
                      : left_ip \in {IF 2 * x[il] < h2
                                     THEN the({FracAdd(Frac(il, 1), step)
                                               : step \in {Frac(h2 - 2 * x[il],
                                                                2 * (x[il + 1] - x[il]))}})
                                     ELSE Frac(il, 1)},
                        right_ip \in {IF 2 * x[ir] < h2
                                      THEN the({FracSub(Frac(ir, 1), step)
                                                : step \in {Frac(h2 - 2 * x[ir],
                                                                 2 * (x[ir - 1] - x[ir]))}})
                                      ELSE Frac(ir, 1)}})
                 : il \in {SetMax({i \in pd.left_base..p :
                                      i = pd.left_base \/ 2 * x[i] <= h2})},
                   ir \in {SetMin({i \in p..pd.right_base :
                                      i = pd.right_base \/ 2 * x[i] <= h2})}})
         : pd \in {peak_prominences(x, p)}})

\* scipy find_peaks after the local maxima: the conditions in the order
\* height, distance, prominence, width; a condition that is None is skipped
select_peaks(x, maxima, h, d, pr, w, ties) ==
    LET by_height == IF h = None THEN maxima
                     ELSE SelectSeq(maxima, LAMBDA p : FracLeq(h[1], Frac(x[p], 1)))
        by_distance == IF d = None THEN by_height
                       ELSE select_by_peak_distance(by_height, x, d[1], ties)
        by_prominence == IF pr = None THEN by_distance
                         ELSE SelectSeq(by_distance,
                                  LAMBDA p : pr[1] <= peak_prominences(x, p).prominence)
    IN IF w = None THEN by_prominence
       ELSE SelectSeq(by_prominence,
                LAMBDA p : FracLeq(Frac(w[1], 1), peak_widths(x, p).widths))

\* scipy find_peaks(x, height, distance, prominence, width)[0]
find_peaks(x, h, d, pr, w, ties) ==
    IF d # None /\ d[1] < 1 THEN Raise("ValueError")
    ELSE Return(select_peaks(x, local_maxima(x), h, d, pr, w, ties))

\* twice np.trapz(y), unit spacing
RECURSIVE trapz2(_)
trapz2(y) ==
    IF Len(y) < 2 THEN 0 ELSE y[1] + y[2] + trapz2(Tail(y))

\* twice np.trapz(y, t)
RECURSIVE trapz2_against(_, _)
trapz2_against(y, t) ==
    IF Len(y) < 2 THEN 0
    ELSE (t[2] - t[1]) * (y[1] + y[2]) + trapz2_against(Tail(y), Tail(t))

\* the numpy slice y[left:right]: the right end is excluded
slice(y, left, right) == SubSeq(y, left, right - 1)

\* PeakDetector.detect_peaks.  properties holds 'prominences' only when
\* find_peaks was given a prominence or a width: otherwise the look-up at
\* line 55 raises KeyError.
detect_peaks(x, t, h, d, pr, w, ties) ==
    LET found == find_peaks(x, IF h = None THEN None ELSE Some(Frac(h[1], 1)), d, pr, w, ties)
    IN IF found.kind = "raise" THEN found
       ELSE IF pr = None /\ w = None THEN Raise("KeyError")
       ELSE LET peaks == found.value
            IN Return([k \in 1..Len(peaks) |->
                   the({LET left == FracFloor(pw.left_ips)
                            right == FracFloor(pw.right_ips)
                        IN [retention_time |-> t[p],
                            intensity |-> x[p],
                            prominence |-> peak_prominences(x, p).prominence,
                            width |-> pw.widths,
                            width_start |-> t[left],
                            width_end |-> t[right],
                            area |-> the({Frac(twice, 2)
                                          : twice \in {trapz2(slice(x, left, right))}})]
                        : p \in {peaks[k]}, pw \in {peak_widths(x, peaks[k])}})])

\* PeakAnalyzer.find_peaks_in_spectrum.  np.max of an empty array raises
\* ValueError.  The local maxima, prominences and widths of
\* intensity / max are those of intensity, and a height h on the
\* normalised series is the height h * max on the series itself; a series
\* of zeros normalises to nan and has no peak either way.
find_peaks_in_spectrum(t, x, ht, d, ties) ==
    IF x = <<>> THEN Raise("ValueError")
    ELSE LET found == find_peaks(x, Some(FracMul(ht, Frac(column_max(x), 1))),
                                 Some(d), None, None, ties)
         IN IF found.kind = "raise" THEN found
            ELSE IF Len(t) < 2 THEN Raise("IndexError")
            ELSE LET peaks == found.value
                 IN Return([k \in 1..Len(peaks) |->
                        the({LET left_idx == FracFloor(pw.left_ips)
                                 right_idx == FracFloor(pw.right_ips)
                             IN [retention_time |-> t[p],
                                 intensity |-> x[p],
                                 area |-> the({Frac(twice, 2)
                                               : twice \in {trapz2_against(
                                                     slice(x, left_idx, right_idx),
                                                     slice(t, left_idx, right_idx))}}),
                                 width |-> FracMul(pw.widths, Frac(t[2] - t[1], 1))]
                             : p \in {peaks[k]}, pw \in {peak_widths(x, peaks[k])}})])

\* list.sort(key = area, reverse = True): stable, rows of equal area keep
\* their order
RECURSIVE insert_by_area(_, _)
insert_by_area(sorted, row) ==
    IF sorted = <<>> THEN <<row>>
    ELSE IF FracLeq(row.area, Head(sorted).area)
         THEN <<Head(sorted)>> \o insert_by_area(Tail(sorted), row)
         ELSE <<row>> \o sorted

RECURSIVE sort_by_area(_)
sort_by_area(rows) ==
    IF rows = <<>> THEN <<>>
    ELSE insert_by_area(sort_by_area(SubSeq(rows, 1, Len(rows) - 1)), rows[Len(rows)])

\* PDAProcessor._integrate_individual_peaks on a grid of increasing times
integrate_individual_peaks(signal, time_array, mph, mpw, ties) ==
    IF signal = <<>> THEN Raise("ValueError")
    ELSE IF Len(time_array) < 2 THEN Raise("IndexError")
    ELSE LET dt == time_array[2] - time_array[1]
             found == find_peaks(signal, Some(FracMul(mph, Frac(column_max(signal), 1))),
                                 Some(mpw \div dt), None, None, ties)
         IN IF found.kind = "raise" THEN found
            ELSE LET peaks == found.value
                 IN Return(sort_by_area([k \in 1..Len(peaks) |->
                        the({LET left_idx == FracFloor(pw.left_ips)
                                 right_idx == FracFloor(pw.right_ips)
                             IN [retention_time |-> time_array[peak_idx],
                                 area |-> the({Frac(twice, 2)
                                               : twice \in {trapz2_against(
                                                     slice(signal, left_idx, right_idx),
                                                     slice(time_array, left_idx, right_idx))}}),
                                 height |-> signal[peak_idx],
                                 width |-> FracMul(pw.widths, Frac(dt, 1)),
                                 left_rt |-> time_array[left_idx],
                                 right_rt |-> time_array[right_idx]]
                             : peak_idx \in {peaks[k]},
                               pw \in {peak_widths(signal, peaks[k])}})]))


\* ------------------------------------------------------------ PDAProcessor
\* Times are in half seconds (1/120 min), so int(retention_time * 60) is
\* the division by 2; row i of a matrix (from 1) is the scan of second i - 1.
\* A spectrum is a sequence of fractions; nan is the fraction 0/0.

\* the matrices (time x wavelength): scan i has the level v[i] at the first
\* wavelength and one more at each further wavelength
Matrices(n_wl) ==
    {[i \in 1..Len(v) |-> [j \in 1..n_wl |-> v[i] + j - 1]] :
        v \in UNION {[1..n -> 0..MaxAbsorbance] : n \in 0..MaxScans}}

\* the blank spectra over n_wl wavelengths: one level at every wavelength
Blanks(n_wl) == {[j \in 1..n_wl |-> Frac(c, 1)] : c \in 0..MaxAbsorbance}

\* __init__ (line 13), and no call yet
IdlePDA ==
    /\ blank_spectrum = None
    /\ pda_data = <<>>
    /\ wavelengths = <<>>
    /\ retention_time = 0
    /\ rt_window = 0

\* no call of _smooth_spectrum yet
IdleSmooth == input_spectrum = <<>>

\* the spectra: up to MaxSpectrum whole absorbances
Spectra ==
    UNION {[1..n -> {Frac(v, 1) : v \in 0..MaxAbsorbance}] : n \in 0..MaxSpectrum}

IsNaN(a) == a.den = 0

nan_sub(a, b) == IF IsNaN(a) \/ IsNaN(b) THEN NaN ELSE FracSub(a, b)

nan_add(a, b) == IF IsNaN(a) \/ IsNaN(b) THEN NaN ELSE FracAdd(a, b)

RECURSIVE nan_sum(_)
nan_sum(xs) == IF xs = <<>> THEN Frac(0, 1) ELSE nan_add(Head(xs), nan_sum(Tail(xs)))

\* np.mean(rows, axis = 0) over n_wl columns: nan in every column (with a
\* RuntimeWarning, no exception) when there is no row
mean_axis0(rows, n_wl) ==
    [j \in 1..n_wl |->
        IF rows = <<>> THEN NaN
        ELSE Frac(Sum([i \in 1..Len(rows) |-> rows[i][j]]), Len(rows))]

\* _extract_spectrum_at_rt: the rows start_idx .. end_idx - 1 (from 0)
extract_spectrum_at_rt(data, n_wl, target, window_arg) ==
    LET rt_index == target \div 2
        window == window_arg \div 2
        start_idx == IF rt_index - window > 0 THEN rt_index - window ELSE 0
        end_idx == IF Len(data) < rt_index + window THEN Len(data) ELSE rt_index + window
    IN mean_axis0(SubSeq(data, start_idx + 1, end_idx), n_wl)

\* faulty variant: the spectrum is subtracted from the blank
subtract_blank_reversed(spectrum, blank) ==
    IF blank = None THEN spectrum
    ELSE [j \in 1..Len(spectrum) |-> nan_sub(blank[1][j], spectrum[j])]

\* _subtract_blank, for a blank as long as the spectrum
subtract_blank(spectrum, blank) ==
    IF blank = None THEN spectrum
    ELSE [j \in 1..Len(spectrum) |-> nan_sub(spectrum[j], blank[1][j])]

RECURSIVE insert_frac(_, _)
insert_frac(sorted, a) ==
    IF sorted = <<>> THEN <<a>>
    ELSE IF FracLeq(Head(sorted), a) THEN <<Head(sorted)>> \o insert_frac(Tail(sorted), a)
    ELSE <<a>> \o sorted

RECURSIVE sort_fracs(_)
sort_fracs(xs) == IF xs = <<>> THEN <<>> ELSE insert_frac(sort_fracs(Tail(xs)), Head(xs))

\* np.percentile(spectrum, 5), linear interpolation at the virtual index
\* (n - 1) * 5 / 100 of the sorted values; nan if a value is nan
percentile5(spectrum) ==
    IF \E j \in 1..Len(spectrum) : IsNaN(spectrum[j]) THEN NaN
    ELSE LET sorted == sort_fracs(spectrum)
             n == Len(spectrum)
             lo == ((n - 1) \div 20) + 1
             part == Frac((n - 1) % 20, 20)
         IN IF part.num = 0 THEN sorted[lo]
            ELSE FracAdd(sorted[lo], FracMul(part, FracSub(sorted[lo + 1], sorted[lo])))

\* _baseline_correction: np.maximum(spectrum - baseline, 0)
baseline_correction(spectrum) ==
    LET baseline == percentile5(spectrum)
    IN [j \in 1..Len(spectrum) |->
           LET d == nan_sub(spectrum[j], baseline)
           IN IF IsNaN(d) THEN NaN ELSE IF d.num < 0 THEN Frac(0, 1) ELSE d]

\* np.convolve(spectrum, ones(window) / window, mode = 'same'), window
\* standing for window_size, of a spectrum that is not empty:
\* max(n, window) elements, the middle
\* ones of the full convolution; element k (from 0) sums the values i
\* (from 0) with 0 <= k + offset - i <= window - 1, where
\* offset = m - 1 - m div 2 for m = min(n, window)
convolve_same(spectrum, window) ==
    LET n == Len(spectrum)
        m == IF n < window THEN n ELSE window
        size == IF n < window THEN window ELSE n
        offset == m - 1 - (m \div 2)
    IN [k \in 1..size |->
           LET covered == SelectSeq(Index(spectrum),
                              LAMBDA i : /\ 0 <= (k - 1) + offset - (i - 1)
                                         /\ (k - 1) + offset - (i - 1) <= window - 1)
               total == nan_sum([c \in 1..Len(covered) |-> spectrum[covered[c]]])
           IN IF IsNaN(total) THEN NaN ELSE FracMul(total, Frac(1, window))]

\* _smooth_spectrum: np.convolve raises ValueError for an empty spectrum
smooth_spectrum(spectrum, window) ==
    IF spectrum = <<>> THEN Raise("ValueError")
    ELSE Return(convolve_same(spectrum, window))

\* np.argmax: the first nan if there is one, else the first maximum
argmax(xs) ==
    IF \E k \in 1..Len(xs) : IsNaN(xs[k])
    THEN CHOOSE k \in 1..Len(xs) : IsNaN(xs[k]) /\ \A l \in 1..(k - 1) : ~IsNaN(xs[l])
    ELSE CHOOSE k \in 1..Len(xs) :
             /\ \A l \in 1..Len(xs) : FracLeq(xs[l], xs[k])
             /\ \A l \in 1..(k - 1) : ~FracLeq(xs[k], xs[l])

\* process_pda_data: 'raw_spectrum' is the spectrum after the blank was
\* subtracted
process_pda_data(blank, data, wl, target, window_arg) ==
    LET extracted == extract_spectrum_at_rt(data, Len(wl), target, window_arg)
        target_spectrum == IF blank # None THEN subtract_blank(extracted, blank)
                           ELSE extracted
        corrected_spectrum == baseline_correction(target_spectrum)
        smoothed == smooth_spectrum(corrected_spectrum, 5)
        smoothed_spectrum == smoothed.value
    IN IF smoothed.kind = "raise" THEN smoothed
       ELSE IF argmax(smoothed_spectrum) > Len(wl) THEN Raise("IndexError")
       ELSE Return([wavelengths |-> wl,
                    raw_spectrum |-> target_spectrum,
                    processed_spectrum |-> smoothed_spectrum,
                    max_wavelength |-> wl[argmax(smoothed_spectrum)]])


\* ------------------------------------------- DataProcessor.process_sample
\* A raw file is known by what the data source makes of it: the channel
\* tables it yields, or the fault it raises.  RawConverter, as far as the
\* source holds it, defines no read_raw_file (the attribute look-up at line
\* 70 raises AttributeError); the data source behind it yields the tables
\* or fails with UnreadableFileError or UnsupportedFormatError.  A channel
\* the source does not have is None, as in RawConverter.read_raw_folder.
SampleMsTables ==
    {<<>>,
     <<[retention_time |-> 12, mass |-> 130078, intensity |-> 1, area |-> 0, width |-> 0]>>,
     <<[retention_time |-> 12, mass |-> 135079, intensity |-> 1, area |-> 0, width |-> 0]>>}

SamplePdaTables ==
    {<<>>,
     <<[retention_time |-> 12, mass |-> 0, intensity |-> 0, area |-> 2, width |-> 0],
       [retention_time |-> 25, mass |-> 0, intensity |-> 0, area |-> 1, width |-> 0]>>}

RawFiles ==
    {[kind |-> k, ms_data |-> None, pda_data |-> None] :
        k \in {"no_reader", "unreadable", "unsupported"}}
    \cup {[kind |-> "readable", ms_data |-> ms, pda_data |-> pda] :
             ms \in {None} \cup {Some(t) : t \in SampleMsTables},
             pda \in {None} \cup {Some(t) : t \in SamplePdaTables}}

\* the notations passed to process_sample: the ones that do not parse, and
\* the molecules of a single atom
SampleNotations ==
    {n \in Notations :
        n.kind # "valid"
        \/ n.atoms["C"] + n.atoms["H"] + n.atoms["N"] + n.atoms["O"] = 1}

SampleIds == {"TEST001", "TEST002"}

\* no call of process_sample
IdleSample ==
    /\ pc = "idle"
    /\ executed = <<>>
    /\ raw_file = [kind |-> "readable", ms_data |-> None, pda_data |-> None]
    /\ sample_id = ""

\* self.converter.read_raw_file(raw_file, memory_efficient = True)
read_raw_file(file) ==
    CASE file.kind = "no_reader" -> Raise("AttributeError")
      [] file.kind = "unreadable" -> Raise("UnreadableFileError")
      [] file.kind = "unsupported" -> Raise("UnsupportedFormatError")
      [] OTHER -> Return([ms_data |-> file.ms_data, pda_data |-> file.pda_data])

\* detect_product(raw_data['ms_data'], target_mass = mh_mass, tolerance = 0.5):
\* masses in 1e-4 Da; subscripting None raises TypeError, which
\* detect_product logs and raises again
sample_detect_product(data, masses) ==
    IF data.ms_data = None THEN Raise("TypeError")
    ELSE detect_product(data.ms_data[1], masses.mh_mass, 5000)

\* calculate_purity(raw_data['pda_data'], time_range = (0.2, 2.5)): times
\* in tenths of a minute
sample_calculate_purity(data) ==
    IF data.pda_data = None THEN Raise("TypeError")
    ELSE calculate_purity(data.pda_data[1], <<2, 25>>)

\* the fields of the AnalysisResult dataclass in the order of the class
\* body, each with whether it has a default: well, the third, is the only
\* one that has
AnalysisResultFields ==
    LET names == <<"sample_id", "smiles", "well", "formula", "monoisotopic_mass",
                   "mh_mass", "mna_mass", "mh_minus_mass", "product_detected",
                   "retention_time", "detected_mass", "purity", "peak1_rt", "peak1_mass",
                   "peak2_rt", "peak2_mass", "peak3_rt", "peak3_mass", "pda_time",
                   "pda_intensity", "ms_time", "ms_pos_tic", "ms_pos_mz",
                   "ms_pos_intensity", "ms_neg_tic", "ms_neg_mz", "ms_neg_intensity",
                   "uv_wavelength", "uv_absorbance">>
    IN [i \in 1..Len(names) |-> [name |-> names[i], has_default |-> names[i] = "well"]]

\* the fields without default
RequiredFields ==
    {AnalysisResultFields[i].name :
        i \in {j \in 1..Len(AnalysisResultFields) : ~AnalysisResultFields[j].has_default}}

\* @dataclass on a class body: TypeError (non-default argument follows
\* default argument) when a field without default comes after one with a
\* default, else the class with its generated __init__
dataclass(fields) ==
    IF \E i \in 1..Len(fields) : \E j \in (i + 1)..Len(fields) :
           fields[i].has_default /\ ~fields[j].has_default
    THEN Raise("TypeError")
    ELSE Return(fields)

\* AnalysisResult(**kwargs).  The class is made when its module is loaded,
\* and the fault of making it is all a use of the class comes to; a class
\* that was made raises TypeError from its __init__ when a keyword names no
\* field or a field without default is not passed.
AnalysisResult(kwargs) ==
    LET class == dataclass(AnalysisResultFields)
    IN  IF class.kind = "raise" THEN class
        ELSE IF /\ DOMAIN kwargs \subseteq
                       {class.value[i].name : i \in 1..Len(class.value)}
                /\ RequiredFields \subseteq DOMAIN kwargs
             THEN Return(kwargs)
             ELSE Raise("TypeError")

\* lines 92-105: the keyword arguments process_sample passes
assemble_result(id, notation, masses, detection, purity) ==
    AnalysisResult([sample_id |-> id,
                    smiles |-> notation,
                    formula |-> masses.formula,
                    monoisotopic_mass |-> masses.monoisotopic_mass,
                    mh_mass |-> masses.mh_mass,
                    mna_mass |-> masses.mna_mass,
                    mh_minus_mass |-> masses.mh_minus_mass,
                    product_detected |-> detection[1],
                    retention_time |-> detection[3],
                    detected_mass |-> detection[2],
                    purity |-> purity])

\* lines 113-115: the fault is logged and raised again
reraise(fault) == fault

\* ------------------------------------------------------ Backend.processFiles
\* RawConverter.__init__: the tool is looked for on Windows only, and may
\* not be found
Converters ==
    {[is_windows |-> FALSE, msconvert_path |-> None],
     [is_windows |-> TRUE, msconvert_path |-> None],
     [is_windows |-> TRUE, msconvert_path |-> Some("msconvert.exe")]}

\* str.lower() on the suffixes of the files of a batch
Lower(suffix) ==
    CASE suffix = ".RAW" -> ".raw"
      [] suffix = ".Raw" -> ".raw"
      [] suffix = ".mzML" -> ".mzml"
      [] OTHER -> suffix

Suffixes == {".raw", ".RAW", ".mzML"}

\* the name of the file at a position of the batch
FileNames == <<"s1", "s2", "s3", "s4", "s5", "s6">>

\* what the data source makes of the files of a batch
BatchRawFiles ==
    {[kind |-> "no_reader", ms_data |-> None, pda_data |-> None],
     [kind |-> "readable", ms_data |-> Some(<<>>), pda_data |-> Some(<<>>)]}

Batches ==
    UNION {[1..n -> [suffix : Suffixes, data : BatchRawFiles]] : n \in 0..MaxFiles}

\* no call of processFiles
IdleBatch ==
    /\ files = <<>>
    /\ file_index = 0
    /\ emitted = <<>>
    /\ converter = [is_windows |-> FALSE, msconvert_path |-> None]
    /\ result_data = <<>>
    /\ batch_pc = "idle"

\* what the external tool does when convert_to_mzml runs it: the path does
\* not lead to a program, the program exits with a code other than 0, it
\* exits with 0 and writes no file, or it writes the converted file
ToolOutcomes == {"absent", "exits_nonzero", "no_output", "converted"}

\* convert_to_mzml: the faults raised before the tool is run (lines 40-50),
\* then the outcome of running it (lines 52-104): every fault is logged and
\* raised again, and the converted file is moved to the mzml directory two
\* levels above the raw folder, whose path is returned
convert_to_mzml(conv, raw_dir, tool) ==
    IF ~conv.is_windows THEN Raise("RuntimeError")
    ELSE IF ~raw_dir.is_dir \/ Lower(raw_dir.suffix) # ".raw" THEN Raise("ValueError")
    ELSE IF conv.msconvert_path = None THEN Raise("RuntimeError")
    ELSE CASE tool = "absent" -> Raise("FileNotFoundError")
           [] tool = "exits_nonzero" -> Raise("RuntimeError")
           [] tool = "no_output" -> Raise("FileNotFoundError")
           [] OTHER -> Return([directory |-> "mzml", stem |-> raw_dir.stem,
                               suffix |-> ".mzML"])

\* the parameters of process_sample besides self
ProcessSampleParameters == {"raw_file", "sample_id", "smiles"}

\* process_sample run to its end: the outcome of the first stage that
\* raises, else the assembled result
process_sample(file, id, notation) ==
    LET raw == read_raw_file(file)
        masses == calculate_masses(notation)
        detection == sample_detect_product(raw.value, masses.value)
        purity == sample_calculate_purity(raw.value)
    IN  IF raw.kind = "raise" THEN reraise(raw)
        ELSE IF masses.kind = "raise" THEN reraise(masses)
        ELSE IF detection.kind = "raise" THEN reraise(detection)
        ELSE IF purity.kind = "raise" THEN reraise(purity)
        ELSE LET assembled == assemble_result(id, notation, masses.value,
                                              detection.value, purity.value)
             IN  IF assembled.kind = "raise" THEN reraise(assembled) ELSE assembled

\* a call of process_sample by keyword: a keyword that names no parameter
\* raises TypeError before the body runs
call_process_sample(kwargs) ==
    IF DOMAIN kwargs \subseteq ProcessSampleParameters
    THEN process_sample(kwargs.raw_file, kwargs.sample_id, kwargs.smiles)
    ELSE Raise("TypeError")

\* lines 41-46: the call processFiles makes for one file
process_one_file(file, id, notation) ==
    call_process_sample([raw_file |-> file.data, sample_id |-> id, smiles |-> notation,
                         mass_tolerance |-> 5000])

statusChanged(message, about, type) ==
    [signal |-> "statusChanged", message |-> message, about |-> about, type |-> type]

progressChanged(value) ==
    [signal |-> "progressChanged", message |-> "", about |-> "", type |-> "",
     value |-> value]

resultDataChanged ==
    [signal |-> "resultDataChanged", message |-> "", about |-> "", type |-> ""]


\* ------------------------------------------------ DataValidator.validate_peaks
\* A table given to validate_peaks is known by the columns it has and by
\* its rows, each a value per column; a missing value is NaN.
RequiredColumns == {"retention_time", "intensity", "area", "width"}

CellValues == {NaN, Frac(0 - 1, 1), Frac(1, 1)}

ValidatedRows(columns) ==
    {r \in [columns -> CellValues] :
        \A c \in columns \cap {"area", "width"} : r[c] = Frac(1, 1)}

ValidatedTables ==
    UNION {{[columns |-> columns, rows |-> rows] :
               rows \in UNION {[1..n -> ValidatedRows(columns)] : n \in 0..MaxValidated}} :
           columns \in SUBSET RequiredColumns}

\* no call of validate_peaks
IdleValidate == peaks_df = [columns |-> {}, rows |-> <<>>]

\* peaks_df[c]: KeyError when the table has no column c
column(df, c) ==
    IF c \in df.columns
    THEN Return([i \in 1..Len(df.rows) |-> df.rows[i][c]])
    ELSE Raise("KeyError")

\* series.notna().all()
notna_all(series) == \A i \in 1..Len(series) : ~IsNaN(series[i])

\* (series >= 0).all(): a comparison with NaN is False
nonnegative_all(series) ==
    \A i \in 1..Len(series) : ~IsNaN(series[i]) /\ FracLeq(Frac(0, 1), series[i])

\* lines 19-23: the operands of 'and' are evaluated from the left, up to
\* the first that is False
valid_values(df) ==
    LET rt_column == column(df, "retention_time")
        intensity_column == column(df, "intensity")
    IN  IF rt_column.kind = "raise" THEN rt_column
        ELSE IF ~notna_all(rt_column.value) THEN Return(FALSE)
        ELSE IF intensity_column.kind = "raise" THEN intensity_column
        ELSE IF ~notna_all(intensity_column.value) THEN Return(FALSE)
        ELSE Return(nonnegative_all(intensity_column.value))

validate_peaks(df) ==
    LET valid == valid_values(df)
    IN  IF valid.kind = "raise" THEN valid
        ELSE Return([has_data |-> Len(df.rows) > 0,
                     has_required_columns |-> RequiredColumns \subseteq df.columns,
                     valid_values |-> valid.value])


\* ------------------------------------------------------------- actions
DetectProduct ==
    \E tm \in 0..MaxMass, tol \in Tolerances :
        /\ op' = "detect_product"
        /\ target_mass' = tm
        /\ tolerance' = tol
        /\ result' = detect_product(peaks_data, tm, tol)
        /\ peaks_data' = detect_product_borrows(peaks_data).arguments[1]
        /\ shared' = detect_product_borrows(peaks_data).returned
        /\ UNCHANGED <<purityArgs, majorArgs, massArgs, alignArgs, corrArgs, peakArgs, pdaArgs, smoothArgs, sampleArgs, batchArgs, validateArgs>>

InitDetect ==
    /\ op = "init"
    /\ peaks_data \in TablesOf(DetectRows, MaxPeaks)
    /\ target_mass = 0
    /\ tolerance = 0
    /\ chromatogram = <<>>
    /\ time_range = <<0, 0>>
    /\ max_peaks = 3
    /\ smiles = EmptyNotation
    /\ ms_data = <<>>
    /\ uv_data = <<>>
    /\ rt_tolerance = Zero
    /\ aligned_data = <<>>
    /\ window_size = 5
    /\ IdlePeaks
    /\ IdlePDA
    /\ IdleSmooth
    /\ IdleSample
    /\ IdleBatch
    /\ IdleValidate
    /\ IdleBorrow
    /\ result = NoCall

CalculatePurity ==
    \E range \in TimeRanges :
        /\ op' = "calculate_purity"
        /\ time_range' = range
        /\ result' = calculate_purity(chromatogram, range)
        /\ chromatogram' = calculate_purity_borrows(chromatogram).arguments[1]
        /\ shared' = calculate_purity_borrows(chromatogram).returned
        /\ UNCHANGED <<detectArgs, majorArgs, massArgs, alignArgs, corrArgs, peakArgs, pdaArgs, smoothArgs, sampleArgs, batchArgs, validateArgs>>

InitPurity ==
    /\ op = "init"
    /\ chromatogram \in TablesOf(PurityRows, MaxChrom)
    /\ time_range = <<0, 0>>
    /\ peaks_data = <<>>
    /\ target_mass = 0
    /\ tolerance = 0
    /\ max_peaks = 3
    /\ smiles = EmptyNotation
    /\ ms_data = <<>>
    /\ uv_data = <<>>
    /\ rt_tolerance = Zero
    /\ aligned_data = <<>>
    /\ window_size = 5
    /\ IdlePeaks
    /\ IdlePDA
    /\ IdleSmooth
    /\ IdleSample
    /\ IdleBatch
    /\ IdleValidate
    /\ IdleBorrow
    /\ result = NoCall

GetMajorPeaks ==
    \E n \in 0..MaxCount, ties \in SortOrders(Len(chromatogram)) :
        /\ op' = "get_major_peaks"
        /\ max_peaks' = n
        /\ result' = get_major_peaks(chromatogram, n, ties)
        /\ chromatogram' = get_major_peaks_borrows(chromatogram).arguments[1]
        /\ shared' = get_major_peaks_borrows(chromatogram).returned
        /\ UNCHANGED <<time_range, detectArgs, massArgs, alignArgs, corrArgs, peakArgs, pdaArgs, smoothArgs, sampleArgs, batchArgs, validateArgs>>

InitMajor ==
    /\ op = "init"
    /\ chromatogram \in TablesOf(MajorRows, MaxChrom)
    /\ time_range = <<0, 0>>
    /\ peaks_data = <<>>
    /\ target_mass = 0
    /\ tolerance = 0
    /\ max_peaks = 3
    /\ smiles = EmptyNotation
    /\ ms_data = <<>>
    /\ uv_data = <<>>
    /\ rt_tolerance = Zero
    /\ aligned_data = <<>>
    /\ window_size = 5
    /\ IdlePeaks
    /\ IdlePDA
    /\ IdleSmooth
    /\ IdleSample
    /\ IdleBatch
    /\ IdleValidate
    /\ IdleBorrow
    /\ result = NoCall

CalculateMasses ==
    \E s \in Notations :
        /\ op' = "MassCalculator.calculate_masses"
        /\ smiles' = s
        /\ result' = calculate_masses(s)
        /\ UNCHANGED <<detectArgs, purityArgs, majorArgs, alignArgs, corrArgs, peakArgs, pdaArgs, smoothArgs, sampleArgs, batchArgs, validateArgs, borrowArgs>>

MolecularCalculateMasses ==
    \E s \in Notations :
        /\ op' = "MolecularCalculator.calculate_masses"
        /\ smiles' = s
        /\ result' = molecular_calculate_masses(s)
        /\ UNCHANGED <<detectArgs, purityArgs, majorArgs, alignArgs, corrArgs, peakArgs, pdaArgs, smoothArgs, sampleArgs, batchArgs, validateArgs, borrowArgs>>

InitMass ==
    /\ op = "init"
    /\ smiles = EmptyNotation
    /\ chromatogram = <<>>
    /\ time_range = <<0, 0>>
    /\ peaks_data = <<>>
    /\ target_mass = 0
    /\ tolerance = 0
    /\ max_peaks = 3
    /\ ms_data = <<>>
    /\ uv_data = <<>>
    /\ rt_tolerance = Zero
    /\ aligned_data = <<>>
    /\ window_size = 5
    /\ IdlePeaks
    /\ IdlePDA
    /\ IdleSmooth
    /\ IdleSample
    /\ IdleBatch
    /\ IdleValidate
    /\ IdleBorrow
    /\ result = NoCall

AlignChannels ==
    \E tol \in AlignTolerances :
        /\ op' = "align_channels"
        /\ rt_tolerance' = tol
        /\ result' = align_channels(ms_data, uv_data, tol)
        /\ ms_data' = align_channels_borrows(ms_data, uv_data).arguments[1]
        /\ uv_data' = align_channels_borrows(ms_data, uv_data).arguments[2]
        /\ shared' = align_channels_borrows(ms_data, uv_data).returned
        /\ UNCHANGED <<detectArgs, purityArgs, majorArgs, massArgs, corrArgs, peakArgs, pdaArgs, smoothArgs, sampleArgs, batchArgs, validateArgs>>

InitAlign ==
    /\ op = "init"
    /\ ms_data \in SeriesTables
    /\ uv_data \in SeriesTables
    /\ rt_tolerance = Zero
    /\ smiles = EmptyNotation
    /\ chromatogram = <<>>
    /\ time_range = <<0, 0>>
    /\ peaks_data = <<>>
    /\ target_mass = 0
    /\ tolerance = 0
    /\ max_peaks = 3
    /\ aligned_data = <<>>
    /\ window_size = 5
    /\ IdlePeaks
    /\ IdlePDA
    /\ IdleSmooth
    /\ IdleSample
    /\ IdleBatch
    /\ IdleValidate
    /\ IdleBorrow
    /\ result = NoCall

NextDetect == DetectProduct

NextPurity == CalculatePurity

SpecPurity == InitPurity /\ [][NextPurity]_vars

NextMajor == GetMajorPeaks

SpecMajor == InitMajor /\ [][NextMajor]_vars

NextMass == CalculateMasses \/ MolecularCalculateMasses

SpecMass == InitMass /\ [][NextMass]_vars

\* one call on the tables of the initial state: a later call on the same
\* tables repeats one of the first calls
NextAlign == op = "init" /\ AlignChannels

SpecAlign == InitAlign /\ [][NextAlign]_vars

SpecDetect == InitDetect /\ [][NextDetect]_vars

AnalyzePeakCorrelation ==
    \E w \in 1..MaxWindow :
        /\ op' = "analyze_peak_correlation"
        /\ window_size' = w
        /\ result' = analyze_peak_correlation(aligned_data, w)
        /\ aligned_data' = analyze_peak_correlation_borrows(aligned_data).arguments[1]
        /\ shared' = analyze_peak_correlation_borrows(aligned_data).returned
        /\ UNCHANGED <<detectArgs, purityArgs, majorArgs, massArgs, alignArgs, peakArgs, pdaArgs, smoothArgs, sampleArgs, batchArgs, validateArgs>>

InitCorrelate ==
    /\ op = "init"
    /\ aligned_data \in AlignedTables
    /\ window_size = 5
    /\ peaks_data = <<>>
    /\ target_mass = 0
    /\ tolerance = 0
    /\ chromatogram = <<>>
    /\ time_range = <<0, 0>>
    /\ max_peaks = 3
    /\ smiles = EmptyNotation
    /\ ms_data = <<>>
    /\ uv_data = <<>>
    /\ rt_tolerance = Zero
    /\ IdlePeaks
    /\ IdlePDA
    /\ IdleSmooth
    /\ IdleSample
    /\ IdleBatch
    /\ IdleValidate
    /\ IdleBorrow
    /\ result = NoCall

NextCorrelate == AnalyzePeakCorrelation

SpecCorrelate == InitCorrelate /\ [][NextCorrelate]_vars

\* the five methods that are passed tables, called in any order on the
\* tables a caller holds: peak tables of up to MaxBorrowed rows, told apart
\* by their intensity and area, or the two channel series, or the table
\* aligned from them
BorrowedRows(fields) ==
    UNION {[1..k -> fields] : k \in 0..MaxBorrowed}

InitBorrow ==
    /\ op = "init"
    /\ \/ /\ peaks_data \in BorrowedRows([retention_time : {0}, mass : {0},
                                          intensity : 0..MaxIntensity, area : {0},
                                          width : {0}])
          /\ chromatogram \in BorrowedRows([retention_time : {0}, mass : {0},
                                            intensity : 0..MaxIntensity, area : {1},
                                            width : {0}])
          /\ ms_data = <<>>
          /\ uv_data = <<>>
          /\ aligned_data = <<>>
       \/ /\ peaks_data = <<>>
          /\ chromatogram = <<>>
          /\ ms_data \in {t \in SeriesTables : Len(t) <= 1}
          /\ uv_data \in {t \in SeriesTables : Len(t) <= 1}
          /\ aligned_data = <<>>
       \/ /\ peaks_data = <<>>
          /\ chromatogram = <<>>
          /\ ms_data = <<>>
          /\ uv_data = <<>>
          /\ aligned_data \in {t \in AlignedTables : Len(t) <= MaxBorrowed}
    /\ target_mass = 0
    /\ tolerance = 0
    /\ time_range = <<0, 0>>
    /\ max_peaks = 3
    /\ smiles = EmptyNotation
    /\ rt_tolerance = Zero
    /\ window_size = 5
    /\ IdlePeaks
    /\ IdlePDA
    /\ IdleSmooth
    /\ IdleSample
    /\ IdleBatch
    /\ IdleValidate
    /\ IdleBorrow
    /\ result = NoCall

\* one call on the tables as the caller made them
NextBorrow ==
    \/ op = "init" /\ DetectProduct
    \/ op = "init" /\ CalculatePurity
    \/ op = "init" /\ GetMajorPeaks
    \/ op = "init" /\ AlignChannels
    \/ op = "init" /\ AnalyzePeakCorrelation

SpecBorrow == InitBorrow /\ [][NextBorrow]_vars

\* The argument variables hold the arguments of the last call: a parameter
\* the call does not pass has its default.
DetectPeaks ==
    \E h \in Constraints, d \in Distances, pr \in Constraints, w \in Constraints,
       ties \in TieOrders(intensity) :
        /\ op' = "detect_peaks"
        /\ height' = h
        /\ distance' = d
        /\ prominence' = pr
        /\ width' = w
        /\ height_threshold' = Frac(1, 10)
        /\ min_peak_height' = Frac(1, 10)
        /\ min_peak_width' = 0
        /\ result' = detect_peaks(intensity, rt, h, d, pr, w, ties)
        /\ UNCHANGED <<intensity, rt,
                       detectArgs, purityArgs, majorArgs, massArgs, alignArgs, corrArgs, pdaArgs, smoothArgs, sampleArgs, batchArgs, validateArgs, borrowArgs>>

FindPeaksInSpectrum ==
    \E ht \in Thresholds, d \in 0..MaxDistance, ties \in TieOrders(intensity) :
        /\ op' = "find_peaks_in_spectrum"
        /\ height_threshold' = ht
        /\ distance' = Some(d)
        /\ height' = None
        /\ prominence' = None
        /\ width' = None
        /\ min_peak_height' = Frac(1, 10)
        /\ min_peak_width' = 0
        /\ result' = find_peaks_in_spectrum(rt, intensity, ht, d, ties)
        /\ UNCHANGED <<intensity, rt,
                       detectArgs, purityArgs, majorArgs, massArgs, alignArgs, corrArgs, pdaArgs, smoothArgs, sampleArgs, batchArgs, validateArgs, borrowArgs>>

IntegrateIndividualPeaks ==
    \E mph \in Thresholds, mpw \in 0..MaxDistance, ties \in TieOrders(intensity) :
        /\ op' = "_integrate_individual_peaks"
        /\ min_peak_height' = mph
        /\ min_peak_width' = mpw
        /\ height' = None
        /\ distance' = None
        /\ prominence' = None
        /\ width' = None
        /\ height_threshold' = Frac(1, 10)
        /\ result' = integrate_individual_peaks(intensity, rt, mph, mpw, ties)
        /\ UNCHANGED <<intensity, rt,
                       detectArgs, purityArgs, majorArgs, massArgs, alignArgs, corrArgs, pdaArgs, smoothArgs, sampleArgs, batchArgs, validateArgs, borrowArgs>>

InitPeaks ==
    /\ op = "init"
    /\ intensity \in SeriesValues
    /\ \E dt \in 1..MaxStep : rt = uniform_times(Len(intensity), dt)
    /\ height = None
    /\ distance = None
    /\ prominence = None
    /\ width = None
    /\ height_threshold = Frac(1, 10)
    /\ min_peak_height = Frac(1, 10)
    /\ min_peak_width = 0
    /\ aligned_data = <<>>
    /\ window_size = 5
    /\ peaks_data = <<>>
    /\ target_mass = 0
    /\ tolerance = 0
    /\ chromatogram = <<>>
    /\ time_range = <<0, 0>>
    /\ max_peaks = 3
    /\ smiles = EmptyNotation
    /\ ms_data = <<>>
    /\ uv_data = <<>>
    /\ rt_tolerance = Zero
    /\ IdlePDA
    /\ IdleSmooth
    /\ IdleSample
    /\ IdleBatch
    /\ IdleValidate
    /\ IdleBorrow
    /\ result = NoCall

NextPeaks == DetectPeaks \/ FindPeaksInSpectrum \/ IntegrateIndividualPeaks

SpecPeaks == InitPeaks /\ [][NextPeaks]_vars

SetBlankSpectrum ==
    \E blank_data \in {None} \cup {Some(b) : b \in Blanks(Len(wavelengths))} :
        /\ op' = "set_blank_spectrum"
        /\ blank_spectrum' = blank_data
        /\ result' = Return(None)
        /\ UNCHANGED <<pda_data, wavelengths, retention_time, rt_window,
                       detectArgs, purityArgs, majorArgs, massArgs, alignArgs, corrArgs,
                       peakArgs, smoothArgs, sampleArgs, batchArgs, validateArgs, borrowArgs>>

ProcessPdaData ==
    \E target \in 0..MaxTime, window_arg \in 0..MaxHalfwidth :
        /\ op' = "process_pda_data"
        /\ retention_time' = target
        /\ rt_window' = window_arg
        /\ result' = process_pda_data(blank_spectrum, pda_data, wavelengths, target,
                                      window_arg)
        /\ UNCHANGED <<blank_spectrum, pda_data, wavelengths,
                       detectArgs, purityArgs, majorArgs, massArgs, alignArgs, corrArgs,
                       peakArgs, smoothArgs, sampleArgs, batchArgs, validateArgs, borrowArgs>>

ExtractSpectrumAtRt ==
    \E target \in 0..MaxTime, window_arg \in 0..MaxHalfwidth :
        /\ op' = "_extract_spectrum_at_rt"
        /\ retention_time' = target
        /\ rt_window' = window_arg
        /\ result' = Return(extract_spectrum_at_rt(pda_data, Len(wavelengths), target,
                                                   window_arg))
        /\ UNCHANGED <<blank_spectrum, pda_data, wavelengths,
                       detectArgs, purityArgs, majorArgs, massArgs, alignArgs, corrArgs,
                       peakArgs, smoothArgs, sampleArgs, batchArgs, validateArgs, borrowArgs>>

InitPDA ==
    /\ op = "init"
    /\ blank_spectrum = None
    /\ \E n_wl \in 1..MaxWl :
          /\ wavelengths = [j \in 1..n_wl |-> j]
          /\ pda_data \in Matrices(n_wl)
    /\ retention_time = 0
    /\ rt_window = 0
    /\ IdlePeaks
    /\ aligned_data = <<>>
    /\ window_size = 5
    /\ peaks_data = <<>>
    /\ target_mass = 0
    /\ tolerance = 0
    /\ chromatogram = <<>>
    /\ time_range = <<0, 0>>
    /\ max_peaks = 3
    /\ smiles = EmptyNotation
    /\ ms_data = <<>>
    /\ uv_data = <<>>
    /\ rt_tolerance = Zero
    /\ IdleSmooth
    /\ IdleSample
    /\ IdleBatch
    /\ IdleValidate
    /\ IdleBorrow
    /\ result = NoCall

NextPDA == SetBlankSpectrum \/ ProcessPdaData \/ ExtractSpectrumAtRt

SpecPDA == InitPDA /\ [][NextPDA]_vars

SmoothSpectrum ==
    \E w \in 1..MaxSmoothWindow :
        /\ op' = "_smooth_spectrum"
        /\ window_size' = w
        /\ result' = smooth_spectrum(input_spectrum, w)
        /\ UNCHANGED <<input_spectrum, aligned_data,
                       detectArgs, purityArgs, majorArgs, massArgs, alignArgs, peakArgs,
                       pdaArgs, sampleArgs, batchArgs, validateArgs, borrowArgs>>

InitSmooth ==
    /\ op = "init"
    /\ input_spectrum \in Spectra
    /\ IdlePDA
    /\ IdlePeaks
    /\ aligned_data = <<>>
    /\ window_size = 5
    /\ peaks_data = <<>>
    /\ target_mass = 0
    /\ tolerance = 0
    /\ chromatogram = <<>>
    /\ time_range = <<0, 0>>
    /\ max_peaks = 3
    /\ smiles = EmptyNotation
    /\ ms_data = <<>>
    /\ uv_data = <<>>
    /\ rt_tolerance = Zero
    /\ IdleSample
    /\ IdleBatch
    /\ IdleValidate
    /\ IdleBorrow
    /\ result = NoCall

NextSmooth == SmoothSpectrum

SpecSmooth == InitSmooth /\ [][NextSmooth]_vars

\* the notations passed to processFiles
BatchNotations ==
    {n \in SampleNotations : n.kind # "valid" \/ n.atoms["C"] = 1}

\* models/analysis_result.py run as a module body: the names it defines,
\* or the fault of the statement that raises.  The only statement after the
\* imports is the class under @dataclass.
analysis_result_module ==
    LET class == dataclass(AnalysisResultFields)
    IN  IF class.kind = "raise" THEN class ELSE Return({"AnalysisResult"})

\* analysis/data_processor.py run as a module body, which every caller of
\* DataProcessor does first (from src.analysis.data_processor import
\* DataProcessor).  Line 9, from ..models.analysis_result import
\* AnalysisResult, PeakInfo, runs the body of that module and raises what
\* it raises, or ImportError for a name the module does not define; the
\* class DataProcessor exists after the last line only.
import_data_processor ==
    IF analysis_result_module.kind = "raise" THEN analysis_result_module
    ELSE IF ~({"AnalysisResult", "PeakInfo"} \subseteq analysis_result_module.value)
         THEN Raise("ImportError")
    ELSE Return({"DataProcessor"})

\* the names the packages converter and analysis bind: neither directory
\* has an __init__.py, so each is a namespace package that binds none
PackageNames == [converter |-> {}, analysis |-> {}]

\* the load of ui/backend.py, lines 3-4: "from ..converter import
\* RawConverter" and "from ..analysis import DataProcessor" need the
\* packages to bind the names, and a package that binds DataProcessor has
\* loaded analysis/data_processor.py
import_backend ==
    IF "RawConverter" \notin PackageNames.converter THEN Raise("ImportError")
    ELSE IF "DataProcessor" \notin PackageNames.analysis THEN Raise("ImportError")
    ELSE IF import_data_processor.kind = "raise" THEN import_data_processor
    ELSE Return({"Backend"})

\* the loop of processFiles from the file at position i on (lines 33-55)
\* and line 57 after the last file: the signals emitted and _result_data;
\* a file whose suffix is not .raw is passed over in silence
RECURSIVE processFiles_from(_, _, _, _, _)
processFiles_from(i, batch, id, notation, backend) ==
    IF i > Len(batch)
    THEN [backend EXCEPT !.emitted = Append(@, progressChanged(Frac(100, 1)))]
    ELSE LET file == batch[i]
             outcome == process_one_file(file, id, notation)
             started == backend.emitted \o
                          <<statusChanged("Processing file", FileNames[i], "info"),
                            progressChanged(Frac((i - 1) * 100, Len(batch)))>>
         IN  processFiles_from(i + 1, batch, id, notation,
                 IF Lower(file.suffix) # ".raw" THEN backend
                 ELSE IF outcome.kind = "raise"
                 THEN [backend EXCEPT
                         !.emitted = Append(started,
                                            statusChanged("Processing failed",
                                                          outcome.value, "error"))]
                 ELSE [emitted |-> started \o
                                     <<resultDataChanged,
                                       statusChanged("Successfully processed",
                                                     FileNames[i], "success")>>,
                       result_data |-> <<outcome.value>>])

\* the host's use of processFiles: the load of ui/backend.py, then
\* Backend() (lines 13-23) and the call; when the load raises there is no
\* class Backend, the call is never entered and no signal is emitted
ProcessFiles ==
    /\ batch_pc = "load"
    /\ LET module == import_backend
           done == processFiles_from(1, files, sample_id, smiles,
                                     [emitted |-> <<>>, result_data |-> <<>>])
       IN  IF module.kind = "raise"
           THEN /\ batch_pc' = "NotLoaded"
                /\ file_index' = file_index
                /\ emitted' = <<>>
                /\ result_data' = <<>>
                /\ result' = module
           ELSE /\ batch_pc' = "done"
                /\ file_index' = Len(files) + 1
                /\ emitted' = done.emitted
                /\ result_data' = done.result_data
                /\ result' = Return(None)
    /\ op' = "processFiles"
    /\ UNCHANGED <<files, converter,
                   detectArgs, purityArgs, majorArgs, massArgs, alignArgs, corrArgs,
                   peakArgs, pdaArgs, smoothArgs, sampleArgs, validateArgs, borrowArgs>>

\* before the host loads ui/backend.py: the batch it will pass, the sample
\* and the machine's conversion tool
InitBatch ==
    /\ op = "init"
    /\ files \in Batches
    /\ file_index = 0
    /\ emitted = <<>>
    /\ converter \in Converters
    /\ result_data = <<>>
    /\ batch_pc = "load"
    /\ pc = "idle"
    /\ executed = <<>>
    /\ raw_file = [kind |-> "readable", ms_data |-> None, pda_data |-> None]
    /\ sample_id = "TEST001"
    /\ smiles \in BatchNotations
    /\ IdleSmooth
    /\ IdlePDA
    /\ IdlePeaks
    /\ aligned_data = <<>>
    /\ window_size = 5
    /\ peaks_data = <<>>
    /\ target_mass = 0
    /\ tolerance = 0
    /\ chromatogram = <<>>
    /\ time_range = <<0, 0>>
    /\ max_peaks = 3
    /\ ms_data = <<>>
    /\ uv_data = <<>>
    /\ rt_tolerance = Zero
    /\ IdleValidate
    /\ IdleBorrow
    /\ result = NoCall

NextBatch == ProcessFiles

SpecBatch == InitBatch /\ [][NextBatch]_vars

ValidatePeaks ==
    /\ op' = "validate_peaks"
    /\ result' = validate_peaks(peaks_df)
    /\ UNCHANGED <<peaks_df, detectArgs, purityArgs, majorArgs, massArgs, alignArgs,
                   corrArgs, peakArgs, pdaArgs, smoothArgs, sampleArgs, batchArgs, borrowArgs>>

InitValidate ==
    /\ op = "init"
    /\ peaks_df \in ValidatedTables
    /\ IdleBatch
    /\ IdleSample
    /\ IdleSmooth
    /\ IdlePDA
    /\ IdlePeaks
    /\ aligned_data = <<>>
    /\ window_size = 5
    /\ peaks_data = <<>>
    /\ target_mass = 0
    /\ tolerance = 0
    /\ chromatogram = <<>>
    /\ time_range = <<0, 0>>
    /\ max_peaks = 3
    /\ smiles = EmptyNotation
    /\ ms_data = <<>>
    /\ uv_data = <<>>
    /\ rt_tolerance = Zero
    /\ IdleBorrow
    /\ result = NoCall

NextValidate == ValidatePeaks

SpecValidate == InitValidate /\ [][NextValidate]_vars

\* the stages of the body of process_sample (lines 66-111) that a call
\* runs, each with the fault it raised: the stages up to the first that
\* raises
stages_run(file, id, notation) ==
    LET raw == read_raw_file(file)
        masses == calculate_masses(notation)
        detection == sample_detect_product(raw.value, masses.value)
        purity == sample_calculate_purity(raw.value)
        assembled == assemble_result(id, notation, masses.value,
                                     detection.value, purity.value)
        ran(name, outcome) ==
            [stage |-> name,
             fault |-> IF outcome.kind = "raise" THEN Some(outcome.value) ELSE None]
        first == <<ran("read_raw_file", raw)>>
        second == Append(first, ran("calculate_masses", masses))
        third == Append(second, ran("detect_product", detection))
        fourth == Append(third, ran("calculate_purity", purity))
    IN  IF raw.kind = "raise" THEN first
        ELSE IF masses.kind = "raise" THEN second
        ELSE IF detection.kind = "raise" THEN third
        ELSE IF purity.kind = "raise" THEN fourth
        ELSE Append(fourth, ran("assemble", assembled))

\* A caller's use of process_sample: it loads analysis.data_processor, makes
\* a DataProcessor and calls process_sample(raw_file, sample_id, smiles).
\* pc is "NotLoaded" when the module body raised and the class was never
\* defined, "Complete" after the return at line 111, "Failed" after the
\* raise at line 115; executed lists the stages of the body that ran.
ProcessSample ==
    /\ pc = "load"
    /\ LET module == import_data_processor
           outcome == process_sample(raw_file, sample_id, smiles)
       IN  IF module.kind = "raise"
           THEN /\ pc' = "NotLoaded"
                /\ executed' = <<>>
                /\ result' = module
           ELSE /\ pc' = IF outcome.kind = "raise" THEN "Failed" ELSE "Complete"
                /\ executed' = stages_run(raw_file, sample_id, smiles)
                /\ result' = outcome
    /\ op' = "process_sample"
    /\ UNCHANGED <<raw_file, sample_id,
                   detectArgs, purityArgs, majorArgs, massArgs, alignArgs, corrArgs,
                   peakArgs, pdaArgs, smoothArgs, batchArgs, validateArgs, borrowArgs>>

InitSample ==
    /\ op = "init"
    /\ pc = "load"
    /\ executed = <<>>
    /\ raw_file \in RawFiles
    /\ sample_id \in SampleIds
    /\ smiles \in SampleNotations
    /\ IdleSmooth
    /\ IdlePDA
    /\ IdlePeaks
    /\ aligned_data = <<>>
    /\ window_size = 5
    /\ peaks_data = <<>>
    /\ target_mass = 0
    /\ tolerance = 0
    /\ chromatogram = <<>>
    /\ time_range = <<0, 0>>
    /\ max_peaks = 3
    /\ ms_data = <<>>
    /\ uv_data = <<>>
    /\ rt_tolerance = Zero
    /\ IdleBatch
    /\ IdleValidate
    /\ IdleBorrow
    /\ result = NoCall

NextSample == ProcessSample

SpecSample == InitSample /\ [][NextSample]_vars

\* ---------------------------------------------------------------- claims
\* the rows of the input table inside the inclusive mass window
InTolerance ==
    {i \in 1..Len(peaks_data) :
        /\ target_mass - tolerance <= peaks_data[i].mass
        /\ peaks_data[i].mass <= target_mass + tolerance}

\* C1: detect_product reports detected = true if and only if at least one
\* peak has target_mass - tolerance <= mass <= target_mass + tolerance
\* (both bounds inclusive); when no peak qualifies it returns
\* (False, None, None).
C1_DetectedIffInTolerance ==
    op = "detect_product" =>
        /\ result.kind = "return"
        /\ result.value[1] = (InTolerance # {})
        /\ (InTolerance = {}) => result.value = <<FALSE, None, None>>

\* a detection whose in-tolerance peaks all sit exactly on the upper bound
C1_Witness ==
    /\ op = "detect_product"
    /\ tolerance > 0
    /\ result.value[1] = TRUE
    /\ \A i \in InTolerance : peaks_data[i].mass = target_mass + tolerance

\* the in-tolerance rows of maximum intensity
Strongest ==
    {i \in InTolerance :
        \A j \in InTolerance : peaks_data[j].intensity <= peaks_data[i].intensity}

SortedByRetentionTime ==
    \A i \in 1..Len(peaks_data) : \A j \in i..Len(peaks_data) :
        peaks_data[i].retention_time <= peaks_data[j].retention_time

\* C2 (as stated): when a peak lies within the tolerance, the returned mass
\* and retention time are those of one peak, the in-tolerance peak of
\* maximum intensity and, among several of that intensity, the one with the
\* earliest retention time, for any order of the input.
C2_EarliestRetentionTime ==
    (op = "detect_product" /\ InTolerance # {}) =>
        \E i \in Strongest :
            /\ \A j \in Strongest :
                  peaks_data[i].retention_time <= peaks_data[j].retention_time
            /\ result.value =
                  <<TRUE, Some(peaks_data[i].mass), Some(peaks_data[i].retention_time)>>

\* C2 (amended): the returned mass and retention time are those of one
\* peak, the in-tolerance peak of maximum intensity and, among several of
\* that intensity, the one that comes first in the input table; that is the
\* earliest retention time when the table is in increasing retention-time
\* order.
C2_FirstInInputOrder ==
    (op = "detect_product" /\ InTolerance # {}) =>
        LET first == CHOOSE i \in Strongest : \A j \in Strongest : i <= j IN
        /\ result.value =
              <<TRUE, Some(peaks_data[first].mass),
                Some(peaks_data[first].retention_time)>>
        /\ SortedByRetentionTime =>
              \A j \in Strongest :
                  peaks_data[first].retention_time <= peaks_data[j].retention_time

\* two in-tolerance peaks of different mass tie on the maximum intensity and
\* the later one in the table elutes earlier
C2_Witness ==
    /\ op = "detect_product"
    /\ result.value[1] = TRUE
    /\ \E i \in Strongest, j \in Strongest :
          /\ i < j
          /\ peaks_data[j].retention_time < peaks_data[i].retention_time
          /\ peaks_data[j].mass # peaks_data[i].mass

\* C3: detect_product is monotonic in tolerance: for the same peak table and
\* target mass, a detection at tolerance t1 is still a detection at every
\* tolerance t2 >= t1.
C3_MonotonicInTolerance ==
    op = "detect_product" =>
        \A t1 \in Tolerances :
            (t1 <= tolerance /\ detect_product(peaks_data, target_mass, t1).value[1])
                => result.value[1]

\* a call that detects at the widest tolerance, where a narrower tolerance
\* detects too and a still narrower one does not
C3_Witness ==
    /\ op = "detect_product"
    /\ result.value[1] = TRUE
    /\ \E t0 \in Tolerances, t1 \in Tolerances :
          /\ 0 <= t0 /\ t0 < t1 /\ t1 < tolerance
          /\ ~ detect_product(peaks_data, target_mass, t0).value[1]
          /\ detect_product(peaks_data, target_mass, t1).value[1]

\* the rows of the chromatogram inside the inclusive retention window
InWindow ==
    {i \in 1..Len(chromatogram) :
        /\ time_range[1] <= chromatogram[i].retention_time
        /\ chromatogram[i].retention_time <= time_range[2]}

RECURSIVE SumAreas(_)
SumAreas(I) ==
    IF I = {} THEN 0
    ELSE LET i == CHOOSE i \in I : TRUE IN chromatogram[i].area + SumAreas(I \ {i})

NonNegativeAreas == \A i \in 1..Len(chromatogram) : chromatogram[i].area >= 0

\* C4: for every non-empty peak set whose areas are all non-negative and for
\* every retention window, calculate_purity returns a value in [0, 100].
C4_PurityBounded ==
    (op = "calculate_purity" /\ chromatogram # <<>> /\ NonNegativeAreas) =>
        /\ result.kind = "return"
        /\ 0 <= result.value.num
        /\ result.value.num <= 100 * result.value.den

\* non-negative areas, one peak outside the window, purity strictly inside (0, 100)
C4_Witness ==
    /\ op = "calculate_purity"
    /\ NonNegativeAreas
    /\ InWindow # {} /\ InWindow # 1..Len(chromatogram)
    /\ 0 < result.value.num
    /\ result.value.num < 100 * result.value.den

\* C5: when the in-window peaks have a non-zero total area, calculate_purity
\* returns 100 x (largest in-window area) / (sum of the in-window areas),
\* capped at 100; peaks outside the window contribute to neither.
C5_PurityFormula ==
    (op = "calculate_purity" /\ SumAreas(InWindow) # 0) =>
        LET largest == CHOOSE a \in {chromatogram[i].area : i \in InWindow} :
                          \A i \in InWindow : chromatogram[i].area <= a
            total == SumAreas(InWindow)
            \* 100 * largest / total <= 100
            below == IF total > 0 THEN largest <= total ELSE largest >= total
        IN /\ result.kind = "return"
           /\ IF below
              THEN result.value.num * total = 100 * largest * result.value.den
              ELSE result.value = [num |-> 100, den |-> 1]

\* the largest peak of the table lies outside the window, the ratio is not capped
C5_Witness ==
    /\ op = "calculate_purity"
    /\ NonNegativeAreas
    /\ SumAreas(InWindow) # 0
    /\ Cardinality(InWindow) >= 2
    /\ \E o \in (1..Len(chromatogram)) \ InWindow :
          \A i \in InWindow : chromatogram[i].area < chromatogram[o].area
    /\ result.value.num < 100 * result.value.den
    /\ 0 < result.value.num

\* C6: calculate_purity returns 0.0 and raises no exception when the peak set
\* is empty, when no peak lies inside the window, and when the in-window
\* areas sum to zero.
C6_ZeroPurity ==
    (op = "calculate_purity"
        /\ (chromatogram = <<>> \/ InWindow = {} \/ SumAreas(InWindow) = 0)) =>
        result = Return([num |-> 0, den |-> 1])

\* in-window peaks of non-zero area whose areas cancel to a zero total
C6_Witness ==
    /\ op = "calculate_purity"
    /\ InWindow # {}
    /\ \A i \in InWindow : chromatogram[i].area # 0
    /\ SumAreas(InWindow) = 0
    /\ result = Return([num |-> 0, den |-> 1])

Min(a, b) == IF a <= b THEN a ELSE b

\* C7: get_major_peaks(peaks, max_count) returns exactly
\* min(max_count, number of input peaks) peaks, each one a distinct input
\* peak, ordered by intensity descending, with peaks of equal intensity kept
\* in their original input order.
C7_MajorPeaks ==
    op = "get_major_peaks" =>
        LET out == result.value
            k == Min(max_peaks, Len(chromatogram))
        IN /\ result.kind = "return"
           /\ Len(out) = k
           /\ \E pos \in [1..k -> 1..Len(chromatogram)] :
                 /\ \A a \in 1..k : out[a] = chromatogram[pos[a]]
                 /\ \A a \in 1..k : \A b \in (a + 1)..k :
                       /\ pos[a] # pos[b]
                       /\ out[a].intensity >= out[b].intensity
                       /\ out[a].intensity = out[b].intensity => pos[a] < pos[b]

MassOps == {"MassCalculator.calculate_masses", "MolecularCalculator.calculate_masses"}

\* C8: for every valid structural notation the mass profile has
\* mh_mass = monoisotopic_mass + 1.0078, mna_mass = monoisotopic_mass + 22.9897
\* and mh_minus_mass = monoisotopic_mass - 1.0073 (in 1e-4 Da: +10078,
\* +229897, -10073); the notation is the call's only input, so no parameter
\* or configuration changes the offsets.
C8_AdductOffsets ==
    (op \in MassOps /\ smiles.kind = "valid") =>
        /\ result.kind = "return"
        /\ result.value.mh_mass - result.value.monoisotopic_mass = 10078
        /\ result.value.mna_mass - result.value.monoisotopic_mass = 229897
        /\ result.value.monoisotopic_mass - result.value.mh_minus_mass = 10073

\* the mass profile of a molecule with atoms of every element of the model
C8_Witness ==
    /\ op = "MassCalculator.calculate_masses"
    /\ smiles.kind = "valid"
    /\ \A e \in Elements : smiles.atoms[e] > 0
    /\ result.kind = "return"
    /\ result.value.mh_mass > result.value.monoisotopic_mass
    /\ result.value.mh_minus_mass < result.value.monoisotopic_mass

\* C9: calculate_masses fails with an invalid-structure error, and returns no
\* mass profile, for every notation that does not yield a valid molecular
\* structure: the empty string, a malformed notation and a chemically
\* invalid notation alike.
C9_InvalidNotationFails ==
    (op \in MassOps /\ smiles.kind # "valid") =>
        /\ result.kind = "raise"
        /\ result.value = "ValueError"

\* C10: for every pair of input series and every rt_tolerance >= 0, every row
\* produced by align_channels has rt_difference <= rt_tolerance.
C10_DifferenceWithinTolerance ==
    (op = "align_channels" /\ fle(Zero, rt_tolerance)) =>
        /\ result.kind = "return"
        /\ \A k \in 1..Len(result.value) :
              fle(result.value[k].rt_difference, rt_tolerance)

\* |x - y|, exactly: the magnitude in units of 2^-56
exact_distance(x, y) ==
    IF x.neg # y.neg THEN mag_add(x, y)
    ELSE IF mag_less(x, y) THEN mag_sub(y, x)
    ELSE mag_sub(x, y)

\* d <= e for two magnitudes
mag_leq(d, e) == mag_less(d, e) \/ mag_equal(d, e)

\* the MS points that have a UV point within the tolerance, in table order
Matched ==
    SelectSeq(Index(ms_data),
              LAMBDA i : \E j \in 1..Len(uv_data) :
                  /\ ~rt_tolerance.neg
                  /\ mag_leq(exact_distance(uv_data[j].retention_time,
                                      ms_data[i].retention_time), rt_tolerance))

\* C11: align_channels emits a row for a point p of ms_data if and only if
\* some point of uv_data has |rt_uv - rt_p| <= rt_tolerance; the row carries
\* p's retention time and intensity and the intensity of a uv_data point
\* whose distance to p is the least over all of uv_data; a point without a
\* UV point within the tolerance produces no row.
C11_RowIffWithinTolerance ==
    op = "align_channels" =>
        /\ result.kind = "return"
        /\ Len(result.value) = Len(Matched)
        /\ \A k \in 1..Len(Matched) :
              LET p == ms_data[Matched[k]]
                  row == result.value[k]
              IN /\ row.retention_time = p.retention_time
                 /\ row.ms_intensity = p.intensity
                 /\ \E j \in 1..Len(uv_data) :
                       /\ row.uv_intensity = uv_data[j].intensity
                       /\ \A l \in 1..Len(uv_data) :
                             mag_leq(exact_distance(uv_data[j].retention_time, p.retention_time),
                                     exact_distance(uv_data[l].retention_time, p.retention_time))

\* every row carries its MS point and the UV point that is the closest of
\* all of uv_data to it
RowsCarryClosest ==
    op = "align_channels" =>
        \A k \in 1..Len(result.value) :
            LET row == result.value[k]
                p == ms_data[row.ms_intensity]
            IN /\ row.retention_time = p.retention_time
               /\ \A l \in 1..Len(uv_data) :
                     mag_leq(exact_distance(uv_data[row.uv_intensity].retention_time,
                                      p.retention_time),
                             exact_distance(uv_data[l].retention_time, p.retention_time))

\* a point with a UV point within the tolerance has a row
MatchedHaveRows ==
    op = "align_channels" =>
        \A k \in 1..Len(Matched) :
            \E r \in 1..Len(result.value) : result.value[r].ms_intensity = Matched[k]

\* rows i .. i + w - 1 of the aligned table, one column
WindowColumn(i, w, name) == [j \in 1..w |-> aligned_data[i + j - 1][name]]

\* C12: analyze_peak_correlation fails, and returns no correlation result,
\* whenever it is given fewer than 2 aligned rows, the empty table that
\* align_channels returns without a match included.
C12_FewerThanTwoRowsFails ==
    (op = "analyze_peak_correlation" /\ Len(aligned_data) < 2) =>
        /\ result.kind = "raise"
        /\ result.value \in {"KeyError", "ValueError"}

\* a single aligned row given with a window of one row
C12_Witness ==
    /\ op = "analyze_peak_correlation"
    /\ Len(aligned_data) = 1
    /\ window_size = 1
    /\ result = Raise("ValueError")

\* C13: for n aligned rows (at least the 2 rows a correlation needs) and
\* window size w, analyze_peak_correlation returns and local_correlation has
\* exactly max(0, n - w + 1) entries; the i-th entry is computed from exactly
\* the w consecutive rows i .. i + w - 1, and its retention time is the mean
\* retention time of those rows.
C13_SlidingWindows ==
    (op = "analyze_peak_correlation" /\ Len(aligned_data) >= 2) =>
        /\ result.kind = "return"
        /\ LET n == Len(aligned_data)
               w == window_size
               local == result.value.local_correlation
           IN /\ Len(local) = (IF n - w + 1 > 0 THEN n - w + 1 ELSE 0)
              /\ \A i \in 1..Len(local) :
                    /\ local[i].retention_time =
                           Frac(Sum(WindowColumn(i, w, "retention_time")), w)
                    /\ Return(local[i].correlation) =
                           pearsonr(WindowColumn(i, w, "ms_intensity"),
                                    WindowColumn(i, w, "uv_intensity"))

\* the same for windows of at least 2 rows
C13_WindowsOfTwoRows ==
    window_size >= 2 => C13_SlidingWindows

StrictLocalMaxima ==
    {(l + r) \div 2 : <<l, r>> \in
        {lr \in (2..(Len(intensity) - 1)) \X (2..(Len(intensity) - 1)) :
            /\ lr[1] <= lr[2]
            /\ \A i \in lr[1]..lr[2] : intensity[i] = intensity[lr[1]]
            /\ intensity[lr[1] - 1] < intensity[lr[1]]
            /\ intensity[lr[2] + 1] < intensity[lr[2]]}}

\* the members of a set of positions in increasing order
RECURSIVE Ascending(_)
Ascending(S) ==
    IF S = {} THEN <<>> ELSE <<SetMin(S)>> \o Ascending(S \ {SetMin(S)})

\* the local maxima that pass the constraints the last call was given, of
\* equally high maxima closer than the distance the one ties prefers
PassingMaxima(ties) ==
    IF op = "detect_peaks"
    THEN select_peaks(intensity, Ascending(StrictLocalMaxima),
                      IF height = None THEN None ELSE Some(Frac(height[1], 1)),
                      distance, prominence, width, ties)
    ELSE select_peaks(intensity, Ascending(StrictLocalMaxima),
                      Some(FracMul(height_threshold, Frac(column_max(intensity), 1))),
                      distance, None, None, ties)

\* the half-height bounds of a peak as sample positions:
\* left_ips.astype(int), right_ips.astype(int)
left_bound(x, p) == FracFloor(peak_widths(x, p).left_ips)

right_bound(x, p) == FracFloor(peak_widths(x, p).right_ips)

\* the sample position of a retention time of the series
PositionOf(t) == CHOOSE p \in 1..Len(rt) : rt[p] = t

\* C15: peak detection fails for every series of fewer than 3 points,
\* whatever constraints are supplied; it never returns a peak table, empty
\* or not, for such a series.
C15_ShortSeriesFails ==
    (op \in {"detect_peaks", "find_peaks_in_spectrum"} /\ Len(intensity) < 3) =>
        result.kind = "raise"

\* C16: on a series of at least 3 points (and a distance, if given, of at
\* least 1), peak detection returns exactly one peak for each local maximum
\* that passes the supplied constraints, a local maximum being a sample or
\* a flat run collapsed to one sample, strictly greater than its neighbours
\* on both sides; the peaks are listed in increasing retention-time order.
C16_OnePeakPerLocalMaximum ==
    (/\ op \in {"detect_peaks", "find_peaks_in_spectrum"}
     /\ Len(intensity) >= 3
     /\ (distance = None \/ distance[1] >= 1)) =>
        /\ result.kind = "return"
        /\ \E ties \in TieOrders(intensity) :
              /\ Len(result.value) = Len(PassingMaxima(ties))
              /\ \A k \in 1..Len(PassingMaxima(ties)) :
                    result.value[k].retention_time = rt[PassingMaxima(ties)[k]]
        /\ \A k \in 1..(Len(result.value) - 1) :
              result.value[k].retention_time < result.value[k + 1].retention_time

\* C17: every peak a peak detector produces on a series that is not
\* negative has area >= 0 and width >= 0, has width = right_bound -
\* left_bound in retention-time units, and has left_bound <= retention_time
\* <= right_bound with both bounds inside the extent of the series.
C17_PeakInvariant ==
    (/\ op \in {"detect_peaks", "find_peaks_in_spectrum", "_integrate_individual_peaks"}
     /\ result.kind = "return") =>
        \A k \in 1..Len(result.value) :
            LET peak == result.value[k]
                left == IF op = "detect_peaks" THEN peak.width_start ELSE peak.left_rt
                right == IF op = "detect_peaks" THEN peak.width_end ELSE peak.right_rt
            IN /\ FracLeq(Frac(0, 1), peak.area)
               /\ FracLeq(Frac(0, 1), peak.width)
               /\ op # "find_peaks_in_spectrum" =>
                     /\ peak.width = Frac(right - left, 1)
                     /\ left <= peak.retention_time
                     /\ peak.retention_time <= right
                     /\ rt[1] <= left
                     /\ right <= rt[Len(rt)]

\* C18: the area of each detected peak is the trapezoidal integral, against
\* retention time, of the series values over all samples from the peak's
\* left boundary sample to its right boundary sample, both included.
C18_AreaIsTrapezoid ==
    (/\ op \in {"detect_peaks", "find_peaks_in_spectrum", "_integrate_individual_peaks"}
     /\ result.kind = "return") =>
        \A k \in 1..Len(result.value) :
            LET p == PositionOf(result.value[k].retention_time)
                left == left_bound(intensity, p)
                right == right_bound(intensity, p)
            IN result.value[k].area =
                   Frac(trapz2_against(SubSeq(intensity, left, right),
                                       SubSeq(rt, left, right)), 2)

\* the rows whose retention time (row i is the scan of second i - 1) lies
\* within the half width of the target, both ends included
Qualifying ==
    {i \in 1..Len(pda_data) :
        /\ retention_time - rt_window <= 2 * (i - 1)
        /\ 2 * (i - 1) <= retention_time + rt_window}

\* the spectrum the last call extracted, as it returned it
ExtractedSpectrum ==
    IF op = "process_pda_data" THEN result.value.raw_spectrum ELSE result.value

\* C19: extracting the window returns the element-wise mean of exactly the
\* matrix rows whose retention time t satisfies target - halfwidth <= t <=
\* target + halfwidth, and fails, instead of returning a spectrum, when no
\* row qualifies.
C19_WindowMeanOrFailure ==
    (\/ op = "_extract_spectrum_at_rt"
     \/ (op = "process_pda_data" /\ blank_spectrum = None)) =>
        IF Qualifying = {} THEN result.kind = "raise"
        ELSE /\ result.kind = "return"
             /\ ExtractedSpectrum =
                    [j \in 1..Len(wavelengths) |->
                        Frac(Sum([k \in 1..Cardinality(Qualifying) |->
                                     pda_data[Ascending(Qualifying)[k]][j]]),
                             Cardinality(Qualifying))]

\* C20: only set_blank_spectrum changes the reference, and every
\* process_pda_data call returns as raw spectrum the extracted spectrum
\* minus, element-wise, the reference set by the last set_blank_spectrum
\* call, or the extracted spectrum itself when no reference is set; it does
\* not fail.
C20_BlankLastsUntilReplaced ==
    [][/\ op' # "set_blank_spectrum" => blank_spectrum' = blank_spectrum
       /\ op' = "process_pda_data" =>
             LET extracted == extract_spectrum_at_rt(pda_data', Len(wavelengths'),
                                                     retention_time', rt_window')
             IN /\ result'.kind = "return"
                /\ result'.value.raw_spectrum =
                       IF blank_spectrum = None THEN extracted
                       ELSE [j \in 1..Len(extracted) |->
                                nan_sub(extracted[j], blank_spectrum[1][j])]]_vars

\* a call with a reference of level 1 set, over a window with scans: the
\* raw spectrum is a number at every wavelength, 1 below the mean
C20_Witness ==
    /\ op = "process_pda_data"
    /\ blank_spectrum # None
    /\ blank_spectrum[1][1] = Frac(1, 1)
    /\ Len(pda_data) = 2
    /\ result.kind = "return"
    /\ \A j \in 1..Len(wavelengths) :
          /\ ~IsNaN(result.value.raw_spectrum[j])
          /\ FracAdd(result.value.raw_spectrum[j], Frac(1, 1)) =
                 Frac(pda_data[1][j] + pda_data[2][j], 2)

\* the mean over the window of window_size elements centred at element k,
\* elements outside the spectrum counting as zero
CentredAverage(xs, k, window) ==
    LET half == (window - 1) \div 2
        inside == SelectSeq(Index(xs), LAMBDA i : k - half <= i /\ i <= k + half)
    IN FracMul(nan_sum([c \in 1..Len(inside) |-> xs[inside[c]]]), Frac(1, window))

\* C21: for every spectrum and every odd window size, also one larger than
\* the spectrum, _smooth_spectrum returns as many elements as the spectrum
\* has, each the centred moving average over the window.
C21_SmoothSameLength ==
    (op = "_smooth_spectrum" /\ window_size % 2 = 1) =>
        /\ result.kind = "return"
        /\ Len(result.value) = Len(input_spectrum)
        /\ \A k \in 1..Len(input_spectrum) :
               result.value[k] = CentredAverage(input_spectrum, k, window_size)

\* a raw file the data source reads, with both channels
Readable == raw_file.kind = "readable" /\ raw_file.ms_data # None /\ raw_file.pda_data # None

\* C23: process_sample, given a readable raw file and a valid SMILES, ends
\* Complete and returns an AnalysisResult with the sample_id and smiles of the
\* call, the formula and masses of the Mass Calculator for that SMILES, a
\* boolean product_detected and a purity in [0, 100].
C23_CompleteWithResult ==
    (op = "process_sample" /\ Readable /\ smiles.kind = "valid") =>
        /\ pc = "Complete"
        /\ result.kind = "return"
        /\ result.value.sample_id = sample_id
        /\ result.value.smiles = smiles
        /\ LET masses == calculate_masses(smiles).value
           IN /\ result.value.formula = masses.formula
              /\ result.value.monoisotopic_mass = masses.monoisotopic_mass
              /\ result.value.mh_mass = masses.mh_mass
              /\ result.value.mna_mass = masses.mna_mass
              /\ result.value.mh_minus_mass = masses.mh_minus_mass
        /\ result.value.product_detected \in BOOLEAN
        /\ FracLeq(Frac(0, 1), result.value.purity)
        /\ FracLeq(result.value.purity, Frac(100, 1))

\* every use of process_sample ends before the body runs, with the
\* TypeError of the dataclass, whatever the arguments
NeverLoaded ==
    op = "process_sample" =>
        /\ pc = "NotLoaded"
        /\ executed = <<>>
        /\ result = Raise("TypeError")

\* the methods of ChannelAnalyzer and PeakAnalyzer that are passed tables
BorrowingOps ==
    {"align_channels", "analyze_peak_correlation", "detect_product",
     "calculate_purity", "get_major_peaks"}

\* C25: align_channels, analyze_peak_correlation, detect_product,
\* calculate_purity and get_major_peaks leave the tables passed to them
\* unchanged: after each call every row and every value of every table the
\* caller holds is what it was before the call, and the object returned is
\* a new one, which neither is nor holds a table that was passed.
C25_InputsUnchanged ==
    [][op' \in BorrowingOps =>
          /\ peaks_data' = peaks_data
          /\ chromatogram' = chromatogram
          /\ ms_data' = ms_data
          /\ uv_data' = uv_data
          /\ aligned_data' = aligned_data
          /\ shared' = {}]_vars

\* get_major_peaks has returned the two peaks of a table, the more intense
\* second row first, and the table still has its rows in the order given
C25_Witness ==
    /\ op = "get_major_peaks"
    /\ Len(chromatogram) = 2
    /\ chromatogram[1].intensity < chromatogram[2].intensity
    /\ result.kind = "return"
    /\ Len(result.value) = 2
    /\ result.value[1].intensity = chromatogram[2].intensity
    /\ result.value[2].intensity = chromatogram[1].intensity
    /\ shared = {}

\* the positions of the batch whose file processFiles has started on
Attempted ==
    {i \in 1..Len(files) :
        \E k \in 1..Len(emitted) :
            emitted[k] = statusChanged("Processing file", FileNames[i], "info")}

\* the external conversion tool cannot be run: convert_to_mzml raises
\* RuntimeError on a well-formed .raw folder whatever the tool would do
SetupFault ==
    \A tool \in ToolOutcomes :
        convert_to_mzml(converter, [is_dir |-> TRUE, stem |-> "s1", suffix |-> ".raw"], tool)
            = Raise("RuntimeError")

\* the file at position i was started on and its failure was reported
\* right after
FailureReported(i) ==
    \E k \in 1..Len(emitted) - 2 :
        /\ emitted[k] = statusChanged("Processing file", FileNames[i], "info")
        /\ emitted[k + 2].signal = "statusChanged"
        /\ emitted[k + 2].type = "error"

\* the analysis of the file at position i ended in a result
Succeeded(i) ==
    \E k \in 1..Len(emitted) :
        emitted[k] = statusChanged("Successfully processed", FileNames[i], "success")

\* the positions of the batch that hold a sample: a .raw file
Samples == {i \in 1..Len(files) : Lower(files[i].suffix) = ".raw"}

\* C26: when the host has processed a batch, the failure of one sample is
\* reported for that sample and every remaining sample is still processed:
\* each sample that did not end in a result has its failure reported and
\* every sample of the batch was started on; whereas with a setup fault
\* (the external conversion tool is missing) the batch halts: no further
\* sample is processed after the first one that meets the fault.
C26_BatchPolicy ==
    op = "processFiles" =>
        IF SetupFault
        THEN Cardinality(Attempted) <= 1
        ELSE /\ \A i \in Samples : ~Succeeded(i) => FailureReported(i)
             /\ Attempted = Samples

\* C27: validate_peaks returns its dictionary of checks, without raising,
\* for every peak table; has_required_columns is false whenever one of
\* retention_time, intensity, area, width is absent, and valid_values is
\* false whenever some intensity is negative.
C27_ChecksForEveryTable ==
    op = "validate_peaks" =>
        /\ result.kind = "return"
        /\ RequiredColumns \ peaks_df.columns # {} => ~result.value.has_required_columns
        /\ (/\ "intensity" \in peaks_df.columns
            /\ \E i \in 1..Len(peaks_df.rows) :
                   /\ ~IsNaN(peaks_df.rows[i]["intensity"])
                   /\ peaks_df.rows[i]["intensity"].num < 0)
               => ~result.value.valid_values

\* a <= b on floats: False when either is nan
nan_leq(a, b) == ~IsNaN(a) /\ ~IsNaN(b) /\ FracLeq(a, b)

\* C28: with a blank spectrum set, the result of process_pda_data has
\* processed_spectrum[i] <= raw_spectrum[i] at every spectral index i, for
\* every PDA matrix and target retention time.
C28_ProcessedBelowRaw ==
    (op = "process_pda_data" /\ blank_spectrum # None /\ result.kind = "return") =>
        \A i \in 1..Len(wavelengths) :
            nan_leq(result.value.processed_spectrum[i], result.value.raw_spectrum[i])

\* C29: the rows returned by align_channels appear in the order of the
\* ms_data points they come from, each ms_data point contributes at most one
\* row (the output never has more rows than ms_data), and when two uv_data
\* points are equally close to an ms_data point the one that comes first in
\* uv_data supplies the value.  (The intensity of a point is its position
\* in its series.)
C29_OrderedOneRowFirstOfTies ==
    op = "align_channels" =>
        /\ result.kind = "return"
        /\ Len(result.value) <= Len(ms_data)
        /\ \A k \in 1..Len(result.value) :
              LET row == result.value[k]
              IN /\ row.ms_intensity \in 1..Len(ms_data)
                 /\ row.retention_time = ms_data[row.ms_intensity].retention_time
                 /\ \A l \in 1..(k - 1) : result.value[l].ms_intensity < row.ms_intensity
                 /\ row.uv_intensity \in 1..Len(uv_data)
                 /\ \A j \in 1..Len(uv_data) :
                       exact_distance(uv_data[j].retention_time, row.retention_time)
                           = exact_distance(uv_data[row.uv_intensity].retention_time,
                                      row.retention_time)
                       => row.uv_intensity <= j

\* two MS points given in decreasing retention time, the first of them
\* half way between two UV points within the tolerance: two rows in the
\* order given, the first with the value of the first UV point
C29_Witness ==
    /\ op = "align_channels"
    /\ Len(ms_data) = 2
    /\ Len(uv_data) = 2
    /\ flt(ms_data[2].retention_time, ms_data[1].retention_time)
    /\ uv_data[1].retention_time # uv_data[2].retention_time
    /\ exact_distance(uv_data[1].retention_time, ms_data[1].retention_time)
          = exact_distance(uv_data[2].retention_time, ms_data[1].retention_time)
    /\ mag_leq(exact_distance(uv_data[1].retention_time, ms_data[1].retention_time),
               rt_tolerance)
    /\ ~rt_tolerance.neg
    /\ Len(result.value) = 2
    /\ result.value[1].ms_intensity = 1
    /\ result.value[1].uv_intensity = 1
    /\ result.value[2].ms_intensity = 2

\* C30: every constraint of detect_peaks is optional: on a series of at
\* least 3 points, with any subset of height, distance (at least 1),
\* prominence and width supplied, none of them included, detect_peaks
\* returns a peak table, possibly empty, with the columns retention_time,
\* intensity, prominence, width, width_start, width_end and area, and does
\* not fail.
C30_ConstraintsOptional ==
    (/\ op = "detect_peaks"
     /\ Len(intensity) >= 3
     /\ (distance = None \/ distance[1] >= 1)) =>
        /\ result.kind = "return"
        /\ \A k \in 1..Len(result.value) :
              DOMAIN result.value[k] =
                  {"retention_time", "intensity", "prominence", "width", "width_start",
                   "width_end", "area"}

====
